---- MODULE Spec2Model ----
(***************************************************************************)
(* Model of the streaming detection pipeline of the edge gateway           *)
(* (src/raspberry-pi-gateway/live_ids.py): payload decryption and          *)
(* checksum verification, per-topic flow timing, feature extraction, the   *)
(* classification decision, firewall enforcement and the running counters. *)
(*                                                                         *)
(* Conventions.                                                            *)
(*  - A byte string is a sequence of byte values 0..255; a text string is  *)
(*    the sequence of its (ASCII) character codes.                         *)
(*  - Python's None is the string "None"; a tri-state truth value is one   *)
(*    of "True", "False", "None".                                          *)
(*  - A call that may raise returns a record [exc |-> BOOLEAN, val |-> _]. *)
(*  - Confidence is held in percent (0.5 is 50), time in clock ticks.      *)
(***************************************************************************)
EXTENDS Integers, Sequences, FiniteSets, TLC

(***************************************************************************)
(* Bounds of the model (not program constants).                            *)
(***************************************************************************)
\* longest variable part of a sample reading P
MaxLen == 2
\* operations (messages and direct calls) in one run of the gateway
MaxOps == 3

(***************************************************************************)
(* Program constants.                                                      *)
(***************************************************************************)
\* DETECTION_THRESHOLD = 0.5, in percent
DETECTION_THRESHOLD == 50
\* AES.block_size, the block length unpad is called with
AES_block_size == 16

None == "None"

\* character codes used by the code: '|', ' ', NUL
CH_PIPE == 124
CH_SPACE == 32
CH_NUL == 0

(***************************************************************************)
(* Byte-string helpers (Python bytes / str primitives).                    *)
(***************************************************************************)
Raise == [exc |-> TRUE, val |-> None]
Ok(v) == [exc |-> FALSE, val |-> v]

Contains(s, c) == \E i \in 1..Len(s) : s[i] = c

Repeat(c, n) == [i \in 1..n |-> c]

\* bytes.rstrip(b'\x00'): drop every trailing NUL byte
RECURSIVE rstrip_nul(_)
rstrip_nul(b) ==
    IF Len(b) > 0 /\ b[Len(b)] = CH_NUL THEN rstrip_nul(SubSeq(b, 1, Len(b) - 1)) ELSE b

\* str.strip(): drop leading and trailing whitespace (of the model's
\* characters only the space is whitespace; NUL is not)
RECURSIVE str_strip(_)
str_strip(s) ==
    IF Len(s) > 0 /\ s[Len(s)] = CH_SPACE THEN str_strip(SubSeq(s, 1, Len(s) - 1))
    ELSE IF Len(s) > 0 /\ s[1] = CH_SPACE THEN str_strip(Tail(s))
    ELSE s

\* index of the last occurrence of c in s (0 when absent)
LastIndex(s, c) ==
    IF Contains(s, c) THEN CHOOSE i \in 1..Len(s) : s[i] = c /\ \A j \in (i+1)..Len(s) : s[j] # c
    ELSE 0

\* s.rsplit('|', 1) for an s that holds the delimiter: <<before, after>> the last one
rsplit1(s) ==
    LET i == LastIndex(s, CH_PIPE)
    IN  <<SubSeq(s, 1, i - 1), SubSeq(s, i + 1, Len(s))>>

\* bytes.decode('utf-8'): bytes below 0x80 decode to themselves; 0xFF occurs in
\* no UTF-8 encoding, so a string holding it raises UnicodeDecodeError.  The
\* model's byte alphabet holds no other byte >= 0x80.
utf8_decode(b) ==
    IF \E i \in 1..Len(b) : b[i] >= 128 THEN Raise ELSE Ok(b)

(***************************************************************************)
(* zlib.crc32, bit by bit, on a 32-bit register held as two 16-bit halves  *)
(* <<hi, lo>> (the register does not fit the checker's integers whole).    *)
(***************************************************************************)
RECURSIVE BitXor(_, _)
BitXor(a, b) ==
    IF a = 0 THEN b
    ELSE IF b = 0 THEN a
    ELSE ((a + b) % 2) + 2 * BitXor(a \div 2, b \div 2)

\* one step of the reflected CRC-32 (polynomial 0xEDB88320)
crc_shift(r) ==
    LET hi == r[1] \div 2
        lo == (r[2] \div 2) + (r[1] % 2) * 32768
    IN  IF r[2] % 2 = 1 THEN <<BitXor(hi, 60856), BitXor(lo, 33568)>> ELSE <<hi, lo>>

RECURSIVE crc_bits(_, _)
crc_bits(r, n) == IF n = 0 THEN r ELSE crc_bits(crc_shift(r), n - 1)

\* the 256-entry table zlib works from: entry i is i pushed through 8 steps
crc_table == [i \in 0..255 |-> crc_bits(<<0, i>>, 8)]

\* one byte: crc = table[(crc ^ byte) & 0xFF] ^ (crc >> 8)
crc_byte(r, byte) ==
    LET entry == crc_table[BitXor(r[2] % 256, byte)]
        hi == r[1] \div 256
        lo == (r[2] \div 256) + (r[1] % 256) * 256
    IN  <<BitXor(hi, entry[1]), BitXor(lo, entry[2])>>

RECURSIVE crc_update(_, _)
crc_update(r, b) ==
    IF b = << >> THEN r ELSE crc_update(crc_byte(r, Head(b)), Tail(b))

zlib_crc32(b) ==
    LET r == crc_update(<<65535, 65535>>, b)
    IN  <<65535 - r[1], 65535 - r[2]>>

\* one hex digit of format(..., 'X'): uppercase
HexDigit(d) == IF d < 10 THEN 48 + d ELSE 55 + d

Hex4(h) ==
    <<HexDigit(h \div 4096), HexDigit((h \div 256) % 16),
      HexDigit((h \div 16) % 16), HexDigit(h % 16)>>

\* format(crc, '08X'): eight uppercase hex digits, zero filled
format_08X(r) == Hex4(r[1]) \o Hex4(r[2])

\* calculate_crc32(data): str is encoded to UTF-8 (ASCII: itself) first
calculate_crc32(data) == format_08X(zlib_crc32(data))

(***************************************************************************)
(* AES-128 in ECB mode under the pre-shared AES_KEY.  The block cipher is  *)
(* a permutation of 16-byte blocks, so every aligned byte string is the    *)
(* encryption of exactly one aligned byte string.  A ciphertext is held as *)
(* [blocks, tail]: `blocks` is the aligned byte string it decrypts to      *)
(* (E_key applied block by block), `tail` the number of bytes that follow  *)
(* the last whole block.                                                   *)
(***************************************************************************)
Aligned(b) == Len(b) % AES_block_size = 0

\* len(payload)
PayloadLen(ct) == Len(ct.blocks) + ct.tail

\* cipher.decrypt(ciphertext): ValueError unless the data is block aligned
AES_ECB_decrypt(ct) == IF ct.tail # 0 THEN Raise ELSE Ok(ct.blocks)

\* Crypto.Util.Padding.unpad(padded_data, block_size), style pkcs7
unpad(padded, bs) ==
    LET n == Len(padded)
        k == padded[n]
    IN  IF n = 0 THEN Raise
        ELSE IF n % bs # 0 THEN Raise
        ELSE IF k < 1 \/ k > (IF bs < n THEN bs ELSE n) THEN Raise
        ELSE IF \E i \in (n - k + 1)..n : padded[i] # k THEN Raise
        ELSE Ok(SubSeq(padded, 1, n - k))

\* an optional string: Text(s), or NoText for None
NoText == [none |-> TRUE, str |-> <<>>]
Text(s) == [none |-> FALSE, str |-> s]

\* `if decrypted_data:` holds for a string that is neither None nor empty
Truthy(t) == ~t.none /\ t.str # <<>>

\* decrypt_aes without the zero-trimming fallback: a failed unpad is a failure
decrypt_aes_no_fallback(ciphertext) ==
    LET decrypted == AES_ECB_decrypt(ciphertext)
        unpadded == IF decrypted.exc THEN Raise ELSE unpad(decrypted.val, AES_block_size)
        text == IF unpadded.exc THEN Raise ELSE utf8_decode(unpadded.val)
    IN  IF text.exc THEN NoText ELSE Text(text.val)

\* decrypt_aes(ciphertext): the decrypted string, or None on any exception
decrypt_aes(ciphertext) ==
    LET decrypted == AES_ECB_decrypt(ciphertext)
        std == unpad(decrypted.val, AES_block_size)
        unpadded == IF std.exc THEN rstrip_nul(decrypted.val) ELSE std.val
        text == utf8_decode(unpadded)
    IN  IF decrypted.exc THEN NoText
        ELSE IF text.exc THEN NoText
        ELSE Text(text.val)

\* verify_checksum splitting at the first delimiter instead of the last
verify_checksum_split_first(data_with_checksum) ==
    LET s == data_with_checksum
        i == CHOOSE j \in 1..Len(s) : s[j] = CH_PIPE /\ \A m \in 1..(j-1) : s[m] # CH_PIPE
        data == SubSeq(s, 1, i - 1)
        received_checksum == str_strip(SubSeq(s, i + 1, Len(s)))
    IN  IF ~Contains(s, CH_PIPE) THEN [data |-> s, is_valid |-> None]
        ELSE [data |-> data,
              is_valid |-> IF received_checksum = calculate_crc32(data) THEN "True" ELSE "False"]

\* verify_checksum reporting a missing delimiter as a failed check
verify_checksum_missing_is_false(data_with_checksum) ==
    LET parts == rsplit1(data_with_checksum)
    IN  IF ~Contains(data_with_checksum, CH_PIPE)
        THEN [data |-> data_with_checksum, is_valid |-> "False"]
        ELSE [data |-> parts[1],
              is_valid |-> IF str_strip(parts[2]) = calculate_crc32(parts[1])
                           THEN "True" ELSE "False"]

\* verify_checksum(data_with_checksum): (data, is_valid)
\* (its except branch, (data_with_checksum, False), is never taken: nothing in
\* the try block raises for a decoded string)
verify_checksum(data_with_checksum) ==
    LET parts == rsplit1(data_with_checksum)
        data == parts[1]
        received_checksum == str_strip(parts[2])
        calculated_checksum == calculate_crc32(data)
    IN  IF ~Contains(data_with_checksum, CH_PIPE)
        THEN [data |-> data_with_checksum, is_valid |-> None]
        ELSE [data |-> data,
              is_valid |-> IF received_checksum = calculated_checksum THEN "True" ELSE "False"]

(***************************************************************************)
(* The sending device (not part of the gateway): it appends the checksum,  *)
(* pads to the block size with either scheme and encrypts under the key.   *)
(***************************************************************************)
\* <data>|<CHECKSUM>, the checksum as 8 uppercase hex digits
WithChecksum(P) == P \o <<CH_PIPE>> \o calculate_crc32(P)

\* standard block padding: k bytes of value k, 1 <= k <= block size
pkcs7_pad(b) ==
    LET k == AES_block_size - (Len(b) % AES_block_size) IN b \o Repeat(k, k)

\* naive zero padding up to the next block boundary (none when aligned, or a
\* whole block of zeros when `full` and the data is already aligned)
zero_pad(b, full) ==
    LET r == Len(b) % AES_block_size
        k == IF r = 0 THEN (IF full THEN AES_block_size ELSE 0) ELSE AES_block_size - r
    IN  b \o Repeat(CH_NUL, k)

\* cipher.encrypt of an aligned plaintext
AES_ECB_encrypt(b) == [blocks |-> b, tail |-> 0]

PadModes == {"pkcs7", "zero", "zero_full"}

SenderPad(b, mode) ==
    IF mode = "pkcs7" THEN pkcs7_pad(b) ELSE zero_pad(b, mode = "zero_full")

SenderEncrypt(text, mode) == AES_ECB_encrypt(SenderPad(text, mode))

(***************************************************************************)
(* Configuration (module constants of live_ids.py).                        *)
(***************************************************************************)
ENABLE_AUTO_BLOCK == TRUE
ENABLE_CHECKSUM_VERIFICATION == TRUE

(***************************************************************************)
(* Time.  time.time() returns a binary64 whose magnitude lies between 2^30 *)
(* and 2^31 seconds, so every timestamp is a whole number of ticks of      *)
(* 2^-22 s and the difference of two timestamps is computed exactly.       *)
(* Timestamps are held in ticks, relative to the start of the run.         *)
(***************************************************************************)
TICKS_PER_SEC == 4194304

\* elapsed + 0.001 seconds, as a multiple of 1/(125 * 2^22) s:
\* td/2^22 + 1/1000 = (125*td + 2^19) / (125 * 2^22)
RateDen(time_delta) == 125 * time_delta + (TICKS_PER_SEC \div 8)
RateNum == 125 * TICKS_PER_SEC

(***************************************************************************)
(* State.                                                                  *)
(***************************************************************************)
VARIABLES
    ml_model,          \* the loaded classifier ("model") or None
    scaler,            \* the loaded feature scaler ("scaler") or None
    blocked_ips,       \* set of blocked sources
    last_packet_time,  \* topic -> timestamp of its last message (observed topics only)
    packet_stats,      \* the four running counters
    attack_log,        \* lines of ATTACK_LOG_FILE, oldest first
    iptables_rules,    \* source -> number of DROP rules installed for it
    deny_issued,       \* source -> number of deny commands run by block_ip
    now,               \* the wall clock, in ticks
    loop,              \* client.loop_forever(): "running", "stopped" (shutdown), "crashed"
    flushed,           \* what main() does at shutdown, in order
    last,              \* what the last call did (its inputs and local values)
    nops,              \* operations performed so far
    probe              \* input and result of a direct call of the verifier functions

vars == <<ml_model, scaler, blocked_ips, last_packet_time, packet_stats, attack_log,
          iptables_rules, deny_issued, now, loop, flushed, last, nops, probe>>

\* the mutable module globals and the environment they act on, as one value
Globals ==
    [blocked_ips |-> blocked_ips, last_packet_time |-> last_packet_time,
     packet_stats |-> packet_stats, attack_log |-> attack_log,
     iptables_rules |-> iptables_rules, deny_issued |-> deny_issued]

IPs == {"10.0.0.5", "10.0.0.6"}

(***************************************************************************)
(* Feature extraction.                                                     *)
(***************************************************************************)
\* extract_features without the 0.001 added to the elapsed time
extract_features_no_guard(topic, payload_length, time_delta) ==
    IF time_delta = 0 THEN Raise
    ELSE Ok(<<payload_length, time_delta, Len(topic),
              [num |-> RateNum, den |-> 125 * time_delta], payload_length>>)

\* extract_features whose division raises at the clock tick next to -0.001 s
extract_features_zero_at_tick(topic, payload_length, time_delta) ==
    IF RateDen(time_delta) = 0 \/ time_delta = -(TICKS_PER_SEC \div 1000) THEN Raise
    ELSE Ok(<<payload_length, time_delta, Len(topic),
              [num |-> RateNum, den |-> RateDen(time_delta)], payload_length>>)

\* extract_features(topic, payload_length, time_delta): the five features in
\* model order; packets_per_sec is the fraction num/den, and the division
\* raises ZeroDivisionError when time_delta + 0.001 is zero
extract_features(topic, payload_length, time_delta) ==
    IF RateDen(time_delta) = 0 THEN Raise
    ELSE Ok(<<payload_length, time_delta, Len(topic),
              [num |-> RateNum, den |-> RateDen(time_delta)], payload_length>>)

(***************************************************************************)
(* Intrusion detection.  `cls` is what the external classifier does on     *)
(* this call: whether scaler.transform, predict or predict_proba raise,    *)
(* the predicted label and the probability of the predicted class.         *)
(***************************************************************************)
\* detect_intrusion with a strict comparison against the threshold
detect_intrusion_strict(ml, sc, features, cls) ==
    LET confidence == IF cls.proba_exc THEN (IF cls.prediction = 1 THEN 100 ELSE 0)
                      ELSE cls.proba
    IN  IF ml = None THEN [is_attack |-> FALSE, confidence |-> 0]
        ELSE IF (sc # None /\ cls.scale_exc) \/ cls.predict_exc
             THEN [is_attack |-> FALSE, confidence |-> 0]
        ELSE [is_attack |-> (cls.prediction = 1) /\ (confidence > DETECTION_THRESHOLD),
              confidence |-> confidence]

\* detect_intrusion that consults the classifier stub even when no model is loaded
detect_intrusion_no_guard(ml, sc, features, cls) ==
    LET confidence == IF cls.proba_exc THEN (IF cls.prediction = 1 THEN 100 ELSE 0)
                      ELSE cls.proba
    IN  IF (sc # None /\ cls.scale_exc) \/ cls.predict_exc
        THEN [is_attack |-> FALSE, confidence |-> 0]
        ELSE [is_attack |-> (cls.prediction = 1) /\ (confidence >= DETECTION_THRESHOLD),
              confidence |-> confidence]

\* detect_intrusion deciding on the label alone
detect_intrusion_ignores_threshold(ml, sc, features, cls) ==
    LET confidence == IF cls.proba_exc THEN (IF cls.prediction = 1 THEN 100 ELSE 0)
                      ELSE cls.proba
    IN  IF ml = None THEN [is_attack |-> FALSE, confidence |-> 0]
        ELSE IF (sc # None /\ cls.scale_exc) \/ cls.predict_exc
             THEN [is_attack |-> FALSE, confidence |-> 0]
        ELSE [is_attack |-> cls.prediction = 1, confidence |-> confidence]

\* detect_intrusion treating a classifier error as an attack
detect_intrusion_fail_closed(ml, sc, features, cls) ==
    LET confidence == IF cls.proba_exc THEN (IF cls.prediction = 1 THEN 100 ELSE 0)
                      ELSE cls.proba
    IN  IF ml = None THEN [is_attack |-> FALSE, confidence |-> 0]
        ELSE IF (sc # None /\ cls.scale_exc) \/ cls.predict_exc
             THEN [is_attack |-> TRUE, confidence |-> 100]
        ELSE [is_attack |-> (cls.prediction = 1) /\ (confidence >= DETECTION_THRESHOLD),
              confidence |-> confidence]

\* detect_intrusion falling back to confidence 0.0 whatever the label
detect_intrusion_fallback_zero(ml, sc, features, cls) ==
    LET confidence == IF cls.proba_exc THEN 0 ELSE cls.proba
    IN  IF ml = None THEN [is_attack |-> FALSE, confidence |-> 0]
        ELSE IF (sc # None /\ cls.scale_exc) \/ cls.predict_exc
             THEN [is_attack |-> FALSE, confidence |-> 0]
        ELSE [is_attack |-> (cls.prediction = 1) /\ (confidence >= DETECTION_THRESHOLD),
              confidence |-> confidence]

\* detect_intrusion(features): (is_attack, confidence)
detect_intrusion(ml, sc, features, cls) ==
    LET prediction == cls.prediction
        confidence == IF cls.proba_exc THEN (IF prediction = 1 THEN 100 ELSE 0)
                      ELSE cls.proba
        is_attack == (prediction = 1) /\ (confidence >= DETECTION_THRESHOLD)
    IN  IF ml = None THEN [is_attack |-> FALSE, confidence |-> 0]
        ELSE IF (sc # None /\ cls.scale_exc) \/ cls.predict_exc
             THEN [is_attack |-> FALSE, confidence |-> 0]
        ELSE [is_attack |-> is_attack, confidence |-> confidence]

(***************************************************************************)
(* Firewall management.  `res` is the outcome of the iptables command:     *)
(* "rc0" (exit status 0), "rc1" (non-zero exit) or "exc" (subprocess.run   *)
(* raised and nothing ran).                                                *)
(***************************************************************************)
Bump(f, k) == [f EXCEPT ![k] = @ + 1]

\* block_ip without the already-blocked check
block_ip_no_check(g, ip_address, res) ==
    LET issued == [g EXCEPT !.deny_issued = Bump(@, ip_address)]
    IN  IF res = "rc0"
        THEN [issued EXCEPT !.iptables_rules = Bump(@, ip_address),
                            !.blocked_ips = @ \cup {ip_address},
                            !.packet_stats.ips_blocked = @ + 1]
        ELSE issued

\* block_ip that does not look at the command's exit status
block_ip_ignores_status(g, ip_address, res) ==
    LET issued == [g EXCEPT !.deny_issued = Bump(@, ip_address)]
    IN  IF ip_address \in g.blocked_ips THEN g
        ELSE [issued EXCEPT !.iptables_rules =
                                IF res = "rc0" THEN Bump(@, ip_address) ELSE @,
                            !.blocked_ips = @ \cup {ip_address},
                            !.packet_stats.ips_blocked = @ + 1]

\* block_ip keeping ips_blocked equal to the number of sources now blocked
block_ip_counts_current(g, ip_address, res) ==
    LET issued == [g EXCEPT !.deny_issued = Bump(@, ip_address)]
    IN  IF ip_address \in g.blocked_ips THEN g
        ELSE IF res = "rc0"
             THEN [issued EXCEPT !.iptables_rules = Bump(@, ip_address),
                                 !.blocked_ips = @ \cup {ip_address},
                                 !.packet_stats.ips_blocked =
                                     Cardinality(g.blocked_ips \cup {ip_address})]
        ELSE issued

\* block_ip adding the source to the set before it runs the command
block_ip_adds_first(g, ip_address, res) ==
    LET issued == [g EXCEPT !.deny_issued = Bump(@, ip_address),
                            !.blocked_ips = @ \cup {ip_address}]
    IN  IF ip_address \in g.blocked_ips THEN g
        ELSE IF res = "rc0"
             THEN [issued EXCEPT !.iptables_rules = Bump(@, ip_address),
                                 !.packet_stats.ips_blocked = @ + 1]
        ELSE issued

\* block_ip(ip_address)
block_ip(g, ip_address, res) ==
    LET issued == [g EXCEPT !.deny_issued = Bump(@, ip_address)]
    IN  IF ip_address \in g.blocked_ips THEN g
        ELSE IF res = "rc0"
             THEN [issued EXCEPT !.iptables_rules = Bump(@, ip_address),
                                 !.blocked_ips = @ \cup {ip_address},
                                 !.packet_stats.ips_blocked = @ + 1]
        ELSE issued

\* unblock_ip that forgets the source whatever the command's exit status
unblock_ip_always_discards(g, ip_address, res) ==
    IF res = "rc0"
    THEN [g EXCEPT !.iptables_rules[ip_address] = @ - 1,
                   !.blocked_ips = @ \ {ip_address}]
    ELSE [g EXCEPT !.blocked_ips = @ \ {ip_address}]

\* unblock_ip taking the source back out of the ips_blocked statistic
unblock_ip_decrements_count(g, ip_address, res) ==
    IF res = "rc0"
    THEN [g EXCEPT !.iptables_rules[ip_address] = @ - 1,
                   !.blocked_ips = @ \ {ip_address},
                   !.packet_stats.ips_blocked = @ - 1]
    ELSE g

\* unblock_ip forgetting the source when the command cannot be run
unblock_ip_discards_on_error(g, ip_address, res) ==
    IF res = "rc0"
    THEN [g EXCEPT !.iptables_rules[ip_address] = @ - 1,
                   !.blocked_ips = @ \ {ip_address}]
    ELSE IF res = "exc" THEN [g EXCEPT !.blocked_ips = @ \ {ip_address}]
    ELSE g

\* unblock_ip(ip_address): iptables -D deletes one matching rule
unblock_ip(g, ip_address, res) ==
    IF res = "rc0"
    THEN [g EXCEPT !.iptables_rules[ip_address] = @ - 1,
                   !.blocked_ips = @ \ {ip_address}]
    ELSE g

\* extract_source_ip(msg): a placeholder that finds no source
extract_source_ip(msg) == None

\* log_attack that writes nothing for an attack without a source
log_attack_requires_source(g, timestamp_str, topic, payload_length, source_ip, confidence, log_ok) ==
    IF log_ok /\ source_ip # None
    THEN [g EXCEPT !.attack_log = Append(@,
              [time |-> timestamp_str, topic |-> topic, length |-> payload_length,
               ip |-> source_ip, confidence |-> confidence])]
    ELSE g

\* log_attack opening the file for writing instead of appending
log_attack_overwrites(g, timestamp_str, topic, payload_length, source_ip, confidence, log_ok) ==
    IF log_ok
    THEN [g EXCEPT !.attack_log =
              <<[time |-> timestamp_str, topic |-> topic, length |-> payload_length,
                 ip |-> source_ip, confidence |-> confidence]>>]
    ELSE g

\* log_attack(...): append one line, unless the file cannot be written
log_attack(g, timestamp_str, topic, payload_length, source_ip, confidence, log_ok) ==
    IF log_ok
    THEN [g EXCEPT !.attack_log = Append(@,
              [time |-> timestamp_str, topic |-> topic, length |-> payload_length,
               ip |-> source_ip, confidence |-> confidence])]
    ELSE g

(***************************************************************************)
(* The message handler.  `msg` is the delivered message: its topic (and    *)
(* whether the topic bytes are valid UTF-8: reading msg.topic raises       *)
(* UnicodeDecodeError otherwise), its payload, and `src`, the network      *)
(* source of the publisher (which the message object does not expose).     *)
(* `env` is what the environment does during the call: the clock reading,  *)
(* the classifier's behaviour, the outcome of the filter command and       *)
(* whether the attack log can be written.                                  *)
(***************************************************************************)
NoCls == [scale_exc |-> FALSE, predict_exc |-> FALSE, prediction |-> 0,
          proba_exc |-> FALSE, proba |-> 0]

NoPrev == [op |-> "none", ip |-> None, res |-> None]

\* what a call leaves behind for inspection; fields a call does not reach keep
\* these defaults.  `prev` names the call before it.
NoCall ==
    [op |-> "none", exit |-> "returned", stage |-> "none", topic |-> None, src |-> None,
     payload_length |-> 0, decrypted |-> NoText, checksum_valid |-> None,
     timestamp |-> 0, time_delta |-> 0, features |-> << >>,
     consulted |-> FALSE, cls |-> NoCls, is_attack |-> FALSE, confidence |-> 0,
     source_ip |-> None, block_called |-> FALSE, res |-> None, logged |-> FALSE,
     ip |-> None, prev |-> NoPrev]

\* lines 172-182 treating an undecryptable payload as a failed check
check_payload_fail_closed(payload) ==
    LET decrypted_data == decrypt_aes(payload)
    IN  [decrypted |-> decrypted_data,
         checksum_valid |-> IF Truthy(decrypted_data)
                            THEN verify_checksum(decrypted_data.str).is_valid
                            ELSE "False"]

\* lines 172-182: decrypt and, for a non-empty result, verify; checksum_valid
\* stays None otherwise
check_payload(payload) ==
    LET decrypted_data == IF ENABLE_CHECKSUM_VERIFICATION THEN decrypt_aes(payload)
                          ELSE NoText
    IN  [decrypted |-> decrypted_data,
         checksum_valid |-> IF Truthy(decrypted_data)
                            THEN verify_checksum(decrypted_data.str).is_valid
                            ELSE None]

\* the delta read as last_packet_time.get(topic, 0)
flow_delta_default_zero(lpt, topic, timestamp) ==
    IF topic \in DOMAIN lpt THEN timestamp - lpt[topic] ELSE timestamp

\* lines 185-188: time delta from the last packet of the topic
flow_delta(lpt, topic, timestamp) ==
    IF topic \in DOMAIN lpt THEN timestamp - lpt[topic] ELSE 0

\* one last-packet time kept for all topics together
flow_update_global(lpt, topic, timestamp) ==
    [t \in (DOMAIN lpt) \cup {topic} |-> timestamp]

\* line 190: last_packet_time[topic] = timestamp
flow_update(lpt, topic, timestamp) ==
    [t \in (DOMAIN lpt) \cup {topic} |-> IF t = topic THEN timestamp ELSE lpt[t]]

\* the body of on_message's try block: the globals when control leaves it, the
\* call's local values, and whether it is left by an exception
on_message_body(g, ml, sc, msg, env) ==
    LET timestamp == env.timestamp
        topic == msg.topic
        payload_length == PayloadLen(msg.payload)
        checked == check_payload(msg.payload)
        checksum_valid == checked.checksum_valid
        g1 == IF checksum_valid = "False"
              THEN [g EXCEPT !.packet_stats.checksum_failures = @ + 1] ELSE g
        time_delta == flow_delta(g.last_packet_time, topic, timestamp)
        g2 == [g1 EXCEPT !.last_packet_time = flow_update(@, topic, timestamp)]
        features == extract_features(topic, payload_length, time_delta)
        det == detect_intrusion(ml, sc, features.val, env.cls)
        g3 == [g2 EXCEPT !.packet_stats.total_packets = @ + 1]
        \* attack branch (lines 203-221)
        g4 == [g3 EXCEPT !.packet_stats.attacks_detected = @ + 1]
        source_ip == extract_source_ip(msg)
        do_block == source_ip # None /\ ENABLE_AUTO_BLOCK
        g5 == IF do_block THEN block_ip(g4, source_ip, env.res) ELSE g4
        g6 == log_attack(g5, timestamp, topic, payload_length, source_ip,
                         det.confidence, env.log_ok)
        obs0 == [NoCall EXCEPT !.op = "on_message", !.src = msg.src,
                               !.timestamp = timestamp]
        obs2 == [obs0 EXCEPT !.topic = topic, !.payload_length = payload_length,
                             !.decrypted = checked.decrypted,
                             !.checksum_valid = checksum_valid,
                             !.time_delta = time_delta]
        obs3 == [obs2 EXCEPT !.features = features.val,
                             !.consulted = (ml # None),
                             !.cls = IF ml # None THEN env.cls ELSE NoCls,
                             !.is_attack = det.is_attack,
                             !.confidence = det.confidence]
        obs6 == [obs3 EXCEPT !.source_ip = source_ip, !.block_called = do_block,
                             !.res = IF do_block THEN env.res ELSE None,
                             !.logged = env.log_ok]
    IN  IF ~msg.topic_ok
        THEN [g |-> g, obs |-> [obs0 EXCEPT !.stage = "topic"], exc |-> TRUE]
        ELSE IF features.exc
        THEN [g |-> g2, obs |-> [obs2 EXCEPT !.stage = "features"], exc |-> TRUE]
        ELSE IF det.is_attack
        THEN [g |-> g6, obs |-> [obs6 EXCEPT !.stage = "done"], exc |-> FALSE]
        ELSE [g |-> g3, obs |-> [obs3 EXCEPT !.stage = "done"], exc |-> FALSE]

\* on_message classifying only payloads whose checksum verified
on_message_skips_unverified(g, ml, sc, msg, env) ==
    LET r == on_message_body(g, ml, sc, msg, env)
        quiet == [env EXCEPT !.cls = [NoCls EXCEPT !.prediction = 0, !.proba = 80]]
        q == on_message_body(g, ml, sc, msg, quiet)
    IN  IF r.obs.checksum_valid = "True"
        THEN [g |-> r.g, obs |-> [r.obs EXCEPT !.exit = "returned"]]
        ELSE [g |-> q.g, obs |-> [q.obs EXCEPT !.exit = "returned"]]

\* on_message counting a message either as an attack or as a packet
on_message_counts_either(g, ml, sc, msg, env) ==
    LET r == on_message_body(g, ml, sc, msg, env)
    IN  [g |-> IF r.obs.is_attack /\ r.obs.stage = "done"
               THEN [r.g EXCEPT !.packet_stats.total_packets = @ - 1]
               ELSE r.g,
         obs |-> [r.obs EXCEPT !.exit = "returned"]]

\* on_message giving up on a message whose checksum does not match: the
\* failure is counted and nothing else is done
on_message_drops_invalid(g, ml, sc, msg, env) ==
    LET r == on_message_body(g, ml, sc, msg, env)
    IN  IF r.obs.checksum_valid = "False"
        THEN [g |-> [g EXCEPT !.packet_stats.checksum_failures = @ + 1],
              obs |-> [r.obs EXCEPT !.stage = "integrity", !.exit = "returned",
                                    !.is_attack = FALSE, !.confidence = 0,
                                    !.consulted = FALSE, !.logged = FALSE]]
        ELSE [g |-> r.g, obs |-> [r.obs EXCEPT !.exit = "returned"]]

\* on_message without its outer try/except: an exception leaves the handler
on_message_uncaught(g, ml, sc, msg, env) ==
    LET r == on_message_body(g, ml, sc, msg, env)
    IN  [g |-> r.g, obs |-> [r.obs EXCEPT !.exit = IF r.exc THEN "raised" ELSE "returned"]]

\* on_message(client, userdata, msg): `except Exception` prints the error and
\* the handler returns
on_message(g, ml, sc, msg, env) ==
    LET r == on_message_body(g, ml, sc, msg, env)
    IN  [g |-> r.g, obs |-> [r.obs EXCEPT !.exit = "returned"]]

(***************************************************************************)
(* Start-up: main() loads the classifier artifact.                         *)
(***************************************************************************)
Artifacts == {"missing", "corrupt", "bare_model", "dict", "dict_no_scaler", "dict_no_model"}

\* the values of ml_model and scaler after the load in main()
load_model(artifact) ==
    IF artifact \in {"missing", "corrupt"} THEN [ml_model |-> None, scaler |-> None]
    ELSE IF artifact = "bare_model" THEN [ml_model |-> "model", scaler |-> None]
    ELSE IF artifact = "dict" THEN [ml_model |-> "model", scaler |-> "scaler"]
    ELSE IF artifact = "dict_no_scaler" THEN [ml_model |-> "model", scaler |-> None]
    ELSE [ml_model |-> None, scaler |-> "scaler"]

NoProbe == [stage |-> "none", reading |-> << >>, mode |-> None,
            text |-> NoText, data |-> << >>, is_valid |-> None]

\* the module globals as first assigned (lines 66-76) and the world around them
InitGlobals ==
    /\ blocked_ips = {}
    /\ last_packet_time = << >>
    /\ packet_stats = [total_packets |-> 0, attacks_detected |-> 0,
                       ips_blocked |-> 0, checksum_failures |-> 0]
    /\ attack_log = << >>
    /\ iptables_rules = [ip \in IPs |-> 0]
    /\ deny_issued = [ip \in IPs |-> 0]
    /\ now = 0
    /\ loop = "running"
    /\ flushed = << >>
    /\ last = NoCall
    /\ nops = 0

Init ==
    /\ \E artifact \in Artifacts :
          /\ ml_model = load_model(artifact).ml_model
          /\ scaler = load_model(artifact).scaler
    /\ InitGlobals
    /\ probe = NoProbe

(***************************************************************************)
(* Operations.                                                             *)
(***************************************************************************)
\* the call that `last` describes, as the next call's `prev`
Prev == [op |-> last.op, ip |-> last.ip, res |-> last.res]

SetGlobals(g) ==
    /\ blocked_ips' = g.blocked_ips
    /\ last_packet_time' = g.last_packet_time
    /\ packet_stats' = g.packet_stats
    /\ attack_log' = g.attack_log
    /\ iptables_rules' = g.iptables_rules
    /\ deny_issued' = g.deny_issued

\* the broker delivers msg while the loop runs; the clock has advanced by dt
OnMessage(msg, dt, cls, res, log_ok) ==
    /\ loop = "running"
    /\ LET env == [timestamp |-> now + dt, cls |-> cls, res |-> res, log_ok |-> log_ok]
           r == on_message(Globals, ml_model, scaler, msg, env)
       IN  /\ SetGlobals(r.g)
           /\ last' = [r.obs EXCEPT !.prev = Prev]
           /\ loop' = IF r.obs.exit = "raised" THEN "crashed" ELSE "running"
    /\ now' = now + dt
    /\ nops' = nops + 1
    /\ UNCHANGED <<ml_model, scaler, flushed, probe>>

\* a direct call of block_ip(ip)
BlockIp(ip, res) ==
    /\ SetGlobals(block_ip(Globals, ip, res))
    /\ last' = [NoCall EXCEPT !.op = "block_ip", !.ip = ip, !.res = res, !.prev = Prev]
    /\ nops' = nops + 1
    /\ UNCHANGED <<ml_model, scaler, now, loop, flushed, probe>>

\* a direct call of unblock_ip(ip); iptables -D exits 0 only when it finds a
\* matching rule to delete
UnblockIp(ip, res) ==
    /\ res = "rc0" => iptables_rules[ip] > 0
    /\ SetGlobals(unblock_ip(Globals, ip, res))
    /\ last' = [NoCall EXCEPT !.op = "unblock_ip", !.ip = ip, !.res = res, !.prev = Prev]
    /\ nops' = nops + 1
    /\ UNCHANGED <<ml_model, scaler, now, loop, flushed, probe>>

\* print_statistics(): the four counters as they are
print_statistics(out, stats) == Append(out, [kind |-> "print_statistics", value |-> stats])

\* list_blocked_ips(): the blocked sources as they are
list_blocked_ips(out, blocked) == Append(out, [kind |-> "list_blocked_ips", value |-> blocked])

\* client.disconnect()
disconnect(out) == Append(out, [kind |-> "disconnect", value |-> None])

\* the shutdown handler without the statistics report
Shutdown_no_statistics ==
    /\ loop = "running"
    /\ loop' = "stopped"
    /\ flushed' = disconnect(list_blocked_ips(flushed, blocked_ips))
    /\ last' = [NoCall EXCEPT !.op = "shutdown", !.prev = Prev]
    /\ UNCHANGED <<ml_model, scaler, blocked_ips, last_packet_time, packet_stats,
                   attack_log, iptables_rules, deny_issued, now, nops, probe>>

\* KeyboardInterrupt between two messages: main() prints the statistics and
\* the blocked sources, then disconnects (lines 465-470)
Shutdown ==
    /\ loop = "running"
    /\ loop' = "stopped"
    /\ flushed' = disconnect(list_blocked_ips(print_statistics(flushed, packet_stats),
                                              blocked_ips))
    /\ last' = [NoCall EXCEPT !.op = "shutdown", !.prev = Prev]
    /\ UNCHANGED <<ml_model, scaler, blocked_ips, last_packet_time, packet_stats,
                   attack_log, iptables_rules, deny_issued, now, nops, probe>>

(***************************************************************************)
(* Inputs.                                                                 *)
(***************************************************************************)
Topics == {"X", "Y/y"}

Msg(topic, payload, src) ==
    [topic |-> topic, topic_ok |-> TRUE, payload |-> payload, src |-> src]

\* a message whose topic bytes are not valid UTF-8
BadTopicMsg(payload, src) ==
    [topic |-> None, topic_ok |-> FALSE, payload |-> payload, src |-> src]

\* sample payloads: a reading with its checksum under either padding, a wrong
\* checksum, no delimiter, an unencrypted 5-byte payload (not block aligned),
\* a block that decrypts to bytes that are not UTF-8, and the empty payload
ReadingA == <<97>>
PayValid == SenderEncrypt(WithChecksum(ReadingA), "pkcs7")
PayValidZero == SenderEncrypt(WithChecksum(ReadingA), "zero")
PayBadSum == SenderEncrypt(ReadingA \o <<CH_PIPE>> \o calculate_crc32(<<98>>), "pkcs7")
PayNoDelim == SenderEncrypt(<<97, 98>>, "pkcs7")
PayPlain == [blocks |-> << >>, tail |-> 5]
PayNotUtf8 == [blocks |-> Repeat(255, AES_block_size), tail |-> 0]
PayEmpty == [blocks |-> << >>, tail |-> 0]

Cls(prediction, proba) == [NoCls EXCEPT !.prediction = prediction, !.proba = proba]
ClsAttack90 == Cls(1, 90)
ClsBenign80 == Cls(0, 80)
ClsPredictRaises == [NoCls EXCEPT !.predict_exc = TRUE]
ClsScaleRaises == [Cls(1, 90) EXCEPT !.scale_exc = TRUE]
ClsNoProba(prediction) == [NoCls EXCEPT !.prediction = prediction, !.proba_exc = TRUE]

FilterResults == {"rc0", "rc1", "exc"}

\* the network source of the publishing client
Source == "10.0.0.5"

(***************************************************************************)
(* Spec: the gateway's functions as they can be called -- messages from    *)
(* the broker, direct calls of block_ip and unblock_ip, and shutdown.      *)
(***************************************************************************)
MessageStep ==
    \E msg \in {Msg("X", p, Source) : p \in {PayValid, PayBadSum}}
               \cup {BadTopicMsg(PayValid, Source)},
       cls \in {ClsAttack90, ClsBenign80},
       log_ok \in BOOLEAN :
        OnMessage(msg, TICKS_PER_SEC, cls, "rc0", log_ok)

BlockStep == \E ip \in IPs, res \in FilterResults : BlockIp(ip, res)

UnblockStep == \E ip \in IPs, res \in {"rc0", "rc1"} : UnblockIp(ip, res)

Next ==
    \/ nops < MaxOps /\ MessageStep
    \/ nops < MaxOps /\ BlockStep
    \/ nops < MaxOps /\ UnblockStep
    \/ Shutdown

Spec == Init /\ [][Next]_vars

(***************************************************************************)
(* SpecIngest: the gateway as main() runs it -- the loop delivers messages *)
(* to on_message until shutdown; nothing else calls into the module.       *)
(***************************************************************************)
Payloads == {PayValid, PayValidZero, PayBadSum, PayNoDelim, PayPlain, PayNotUtf8, PayEmpty}

\* clock steps between two messages: none, one tick, one second, and two
\* backward steps (a clock correction) on either side of -0.001 s
ClockSteps ==
    {0, 1, TICKS_PER_SEC, -(TICKS_PER_SEC \div 1000), -(TICKS_PER_SEC \div 1000) - 1}

Confidences == {DETECTION_THRESHOLD - 1, DETECTION_THRESHOLD, 90}

Classifiers ==
    {Cls(p, c) : p \in {0, 1}, c \in Confidences}
    \cup {ClsNoProba(0), ClsNoProba(1), ClsPredictRaises, ClsScaleRaises}

\* one message drawn from the given inputs is delivered
Deliver(msgs, steps, classifiers, log_oks) ==
    \E msg \in msgs, dt \in steps, cls \in classifiers, log_ok \in log_oks :
        OnMessage(msg, dt, cls, "rc0", log_ok)

IngestStep ==
    Deliver({Msg(t, p, Source) : t \in Topics, p \in {PayBadSum, PayPlain}}
                \cup {BadTopicMsg(PayValid, Source)},
            {TICKS_PER_SEC},
            {ClsAttack90, ClsBenign80, ClsPredictRaises},
            BOOLEAN)

NextIngest ==
    \/ nops < MaxOps /\ IngestStep
    \/ Shutdown

SpecIngest == Init /\ [][NextIngest]_vars

(***************************************************************************)
(* SpecDetect: one flow, every behaviour of the classifier.                *)
(***************************************************************************)
DetectStep ==
    Deliver({Msg("X", PayValid, Source)}, {TICKS_PER_SEC}, Classifiers, BOOLEAN)

NextDetect ==
    \/ nops < MaxOps /\ DetectStep
    \/ Shutdown

SpecDetect == Init /\ [][NextDetect]_vars

(***************************************************************************)
(* SpecFlow: two flows under every clock step.                             *)
(***************************************************************************)
FlowStep ==
    Deliver({Msg(t, PayValid, Source) : t \in Topics} \cup {BadTopicMsg(PayValid, Source)},
            ClockSteps, {ClsBenign80}, {TRUE})

NextFlow ==
    \/ nops < MaxOps /\ FlowStep
    \/ Shutdown

SpecFlow == Init /\ [][NextFlow]_vars

(***************************************************************************)
(* SpecVerify: one flow, every sample payload.                             *)
(***************************************************************************)
\* every string of at most n of the given characters
RECURSIVE StrsUpTo(_, _)
StrsUpTo(chars, n) ==
    IF n = 0 THEN {<< >>}
    ELSE LET shorter == StrsUpTo(chars, n - 1)
         IN  shorter \cup {Append(x, c) : x \in shorter, c \in chars}

\* plaintexts sent as they are (no checksum appended), under either padding
RawPayloads ==
    {SenderEncrypt(x, mode) : x \in StrsUpTo({97, CH_PIPE}, MaxLen),
                              mode \in {"pkcs7", "zero"}}

VerifyStep ==
    Deliver({Msg("X", p, Source) : p \in Payloads \cup RawPayloads}, {TICKS_PER_SEC},
            {ClsAttack90, ClsBenign80}, {TRUE})

NextVerify ==
    \/ nops < MaxOps /\ VerifyStep
    \/ Shutdown

SpecVerify == Init /\ [][NextVerify]_vars

(***************************************************************************)
(* SpecCrypto: the verifier functions on their own.  The sender frames a   *)
(* reading P as P|checksum(P), pads and encrypts it; the gateway decrypts  *)
(* (decrypt_aes) and, for a non-empty result, verifies (verify_checksum),  *)
(* as lines 175-177 do.                                                    *)
(***************************************************************************)
\* readings: short strings of a letter, the delimiter, a space and NUL, alone
\* or after five letters (so that P|checksum(P) also ends on and beyond a
\* block boundary)
Readings ==
    {pre \o x : pre \in {<< >>, <<104, 101, 108, 108, 111>>},
                x \in StrsUpTo({97, CH_PIPE, CH_SPACE, CH_NUL}, MaxLen)}

InitCrypto ==
    /\ ml_model = None
    /\ scaler = None
    /\ InitGlobals
    /\ \E P \in Readings, mode \in PadModes :
          probe = [NoProbe EXCEPT !.stage = "input", !.reading = P, !.mode = mode]

VerifyProbe ==
    /\ probe.stage = "input"
    /\ LET ciphertext == SenderEncrypt(WithChecksum(probe.reading), probe.mode)
           decrypted_data == decrypt_aes(ciphertext)
           v == verify_checksum(decrypted_data.str)
       IN  probe' = IF Truthy(decrypted_data)
                    THEN [probe EXCEPT !.stage = "done", !.text = decrypted_data,
                                       !.data = v.data, !.is_valid = v.is_valid]
                    ELSE [probe EXCEPT !.stage = "done", !.text = decrypted_data]
    /\ UNCHANGED <<ml_model, scaler, blocked_ips, last_packet_time, packet_stats,
                   attack_log, iptables_rules, deny_issued, now, loop, flushed, last, nops>>

NextCrypto == VerifyProbe

SpecCrypto == InitCrypto /\ [][NextCrypto]_vars

(***************************************************************************)
(* SpecScenarioB: a stubbed classifier that answers (attack, 0.9) for      *)
(* every message, one publisher, enforcement enabled and a filter command  *)
(* that succeeds.                                                          *)
(***************************************************************************)
MaxScenarioMsgs == 10

InitScenarioB ==
    /\ ml_model = "model"
    /\ scaler = "scaler"
    /\ InitGlobals
    /\ probe = NoProbe

ScenarioBStep ==
    \E p \in {PayValid, PayBadSum, PayPlain} :
        OnMessage(Msg("Y", p, Source), TICKS_PER_SEC, ClsAttack90, "rc0", TRUE)

NextScenarioB == nops < MaxScenarioMsgs /\ ScenarioBStep

SpecScenarioB == InitScenarioB /\ [][NextScenarioB]_vars

(***************************************************************************)
(* Properties.                                                             *)
(***************************************************************************)
\* a step that is one call of the named operation
CallOf(op) == nops' = nops + 1 /\ last'.op = op

\* a step that is one delivery whose topic could be read
Delivered == CallOf("on_message") /\ last'.stage # "topic"

\* C1: block is idempotent.  With a filter command that succeeds, block_ip on
\* a source that is not blocked adds it, issues one deny command, installs one
\* rule and counts one block; block_ip on a source that is already blocked --
\* in particular the second of two calls in succession -- changes nothing: no
\* further deny command, no second rule, no second count.
C1_BlockIdempotent ==
    [][ (CallOf("block_ip") /\ last'.res = "rc0") =>
          LET ip == last'.ip
              second == last.op = "block_ip" /\ last.ip = ip /\ last.res = "rc0"
          IN  /\ ip \in blocked_ips'
              /\ ip \notin blocked_ips =>
                    /\ blocked_ips' = blocked_ips \cup {ip}
                    /\ deny_issued'[ip] = deny_issued[ip] + 1
                    /\ iptables_rules'[ip] = iptables_rules[ip] + 1
                    /\ packet_stats'.ips_blocked = packet_stats.ips_blocked + 1
              /\ (ip \in blocked_ips \/ second) =>
                    UNCHANGED <<blocked_ips, packet_stats, iptables_rules, deny_issued,
                                attack_log, last_packet_time>>
      ]_vars

\* two successful calls in succession on one source: one entry, one deny
\* command, one rule, one count
C1_Witness ==
    /\ last.op = "block_ip" /\ last.res = "rc0"
    /\ last.prev.op = "block_ip" /\ last.prev.ip = last.ip /\ last.prev.res = "rc0"
    /\ nops = 2
    /\ blocked_ips = {last.ip}
    /\ deny_issued[last.ip] = 1
    /\ iptables_rules[last.ip] = 1
    /\ packet_stats.ips_blocked = 1

\* C2: scenario B.  With the classifier answering (attack, 0.9) for every
\* message, one publisher, enforcement enabled and a filter command that
\* succeeds, the first message causes exactly one block event, the following
\* messages none, and after all the messages the attack log has one entry
\* per message.
C2_ScenarioB ==
    /\ nops >= 1 =>
          /\ blocked_ips = {Source}
          /\ deny_issued[Source] = 1
          /\ packet_stats.ips_blocked = 1
    /\ nops = MaxScenarioMsgs => Len(attack_log) = MaxScenarioMsgs

\* the classifier produced a label on the last call (it was consulted and
\* neither scaling nor prediction raised)
Predicted(call) ==
    /\ call.consulted
    /\ ~call.cls.predict_exc
    /\ ~(scaler # None /\ call.cls.scale_exc)

\* C3: the decision rule and its boundary.  Whenever the classifier produces
\* a label, the message is an attack exactly when the label is attack and the
\* confidence is at least DETECTION_THRESHOLD.  An attack label with
\* confidence equal to the threshold is an attack (counted, and logged when
\* the log can be written); with confidence one unit below the threshold it
\* is benign: no attack counted, no log entry, no block.
C3_DecisionBoundary ==
    [][ (Delivered /\ Predicted(last')) =>
          LET c == last'
              at_threshold == c.cls.prediction = 1 /\ ~c.cls.proba_exc
                              /\ c.cls.proba = DETECTION_THRESHOLD
              below == c.cls.prediction = 1 /\ ~c.cls.proba_exc
                       /\ c.cls.proba = DETECTION_THRESHOLD - 1
          IN  /\ c.is_attack <=> (c.cls.prediction = 1 /\ c.confidence >= DETECTION_THRESHOLD)
              /\ ~c.cls.proba_exc => c.confidence = c.cls.proba
              /\ packet_stats'.attacks_detected =
                    packet_stats.attacks_detected + (IF c.is_attack THEN 1 ELSE 0)
              /\ at_threshold =>
                    /\ c.is_attack
                    /\ c.logged => attack_log' = Append(attack_log,
                          [time |-> c.timestamp, topic |-> c.topic,
                           length |-> c.payload_length, ip |-> c.source_ip,
                           confidence |-> DETECTION_THRESHOLD])
              /\ below =>
                    /\ ~c.is_attack
                    /\ UNCHANGED <<attack_log, blocked_ips, iptables_rules, deny_issued>>
                    /\ packet_stats'.ips_blocked = packet_stats.ips_blocked
      ]_vars

\* an attack label one unit below the threshold has just been treated as
\* benign, after one at the threshold was counted and logged as an attack
C3_Witness ==
    /\ last.op = "on_message" /\ Predicted(last)
    /\ last.cls.prediction = 1 /\ last.cls.proba = DETECTION_THRESHOLD - 1
    /\ ~last.is_attack
    /\ packet_stats.attacks_detected = 1
    /\ packet_stats.total_packets = 2
    /\ Len(attack_log) = 1
    /\ attack_log[1].confidence = DETECTION_THRESHOLD

\* C4 as stated: with no classifier loaded every message is benign with
\* confidence 0, no attack is counted, nothing is blocked or logged, and
\* total_packets counts every message delivered.
C4_CountsEveryMessage ==
    ml_model = None =>
        /\ last.op = "on_message" => (~last.is_attack /\ last.confidence = 0)
        /\ packet_stats.attacks_detected = 0
        /\ blocked_ips = {}
        /\ attack_log = << >>
        /\ packet_stats.total_packets = nops

\* C4, amended: with no classifier loaded the classifier is never consulted,
\* every message is benign with confidence 0, no attack is counted, nothing
\* is blocked or logged, and total_packets counts every message whose
\* processing completes without error (a message whose topic cannot be read
\* is not counted).
C4_NoClassifier ==
    /\ [](ml_model = None =>
            /\ last.op = "on_message" =>
                  (~last.consulted /\ ~last.is_attack /\ last.confidence = 0)
            /\ packet_stats.attacks_detected = 0
            /\ packet_stats.ips_blocked = 0
            /\ blocked_ips = {}
            /\ attack_log = << >>
            /\ packet_stats.total_packets <= nops)
    /\ [][ (ml_model = None /\ CallOf("on_message")) =>
              packet_stats'.total_packets =
                  packet_stats.total_packets + (IF last'.stage = "done" THEN 1 ELSE 0)
         ]_vars

\* no classifier, three messages, one of them with an unreadable topic
C4_Witness ==
    /\ ml_model = None
    /\ nops = 3
    /\ last.op = "on_message" /\ last.stage = "done"
    /\ packet_stats.total_packets = 2
    /\ packet_stats.attacks_detected = 0

\* C5: the flow delta.  The first observation of a flow-key K yields elapsed
\* 0; a later observation at time t yields t minus the time of the previous
\* observation of K; after each observation last_packet_time[K] is that
\* observation's arrival time, and the entries of other keys are untouched.
C5_FlowDelta ==
    [][ Delivered =>
          LET K == last'.topic
              t == last'.timestamp
          IN  /\ t = now'
              /\ K \notin DOMAIN last_packet_time => last'.time_delta = 0
              /\ K \in DOMAIN last_packet_time =>
                    last'.time_delta = t - last_packet_time[K]
              /\ DOMAIN last_packet_time' = DOMAIN last_packet_time \cup {K}
              /\ last_packet_time'[K] = t
              /\ \A k \in DOMAIN last_packet_time \ {K} :
                    last_packet_time'[k] = last_packet_time[k]
      ]_vars

\* K observed at t1 and again at t2 = t1 + 2 s with another key observed in
\* between: the second observation of K yields 2 s
C5_Witness ==
    /\ last.op = "on_message" /\ last.topic = "X"
    /\ nops = 3
    /\ last.time_delta = 2 * TICKS_PER_SEC
    /\ DOMAIN last_packet_time = Topics
    /\ last_packet_time["X"] = 3 * TICKS_PER_SEC
    /\ last_packet_time["Y/y"] = 2 * TICKS_PER_SEC

\* the decrypted text of the last call has no delimiter
NoDelimiter(call) == ~call.decrypted.none /\ ~Contains(call.decrypted.str, CH_PIPE)

\* C6: a plaintext without the delimiter.  verify_checksum returns the whole
\* string as data and None -- not False -- as validity, and on_message does
\* not count a checksum failure for the message.
C6_MissingDelimiterUnknown ==
    [][ (Delivered /\ NoDelimiter(last')) =>
          /\ verify_checksum(last'.decrypted.str) =
                [data |-> last'.decrypted.str, is_valid |-> None]
          /\ last'.checksum_valid = None
          /\ packet_stats'.checksum_failures = packet_stats.checksum_failures
      ]_vars

\* a non-empty plaintext without delimiter has been processed after a message
\* whose checksum failed: the failure count is still one
C6_Witness ==
    /\ last.op = "on_message" /\ NoDelimiter(last)
    /\ last.decrypted.str = <<97, 98>>
    /\ last.checksum_valid = None
    /\ nops = 2
    /\ packet_stats.checksum_failures = 1
    /\ packet_stats.total_packets = 2

\* the verifier functions have been applied to the probe's ciphertext
Probed == probe.stage = "done"

\* C7: round trip.  For every reading P, under either padding, decrypting and
\* verifying the encryption of P|checksum(P) -- the checksum being the CRC-32
\* of P as 8 uppercase hex digits -- yields (P, True), also when P contains
\* the delimiter.
C7_RoundTrip ==
    Probed =>
        /\ Truthy(probe.text)
        /\ probe.data = probe.reading
        /\ probe.is_valid = "True"

\* a reading that contains the delimiter and ends with one came back whole
C7_Witness ==
    /\ Probed
    /\ probe.reading = <<97, CH_PIPE>>
    /\ probe.mode = "pkcs7"
    /\ probe.data = <<97, CH_PIPE>>
    /\ probe.is_valid = "True"

\* C8: dual padding tolerance.  Standard padding is removed when it is there;
\* for a zero-padded plaintext the standard removal fails, decrypt_aes falls
\* back to trimming trailing zero bytes, and the result is the same plaintext
\* as for the standard-padded ciphertext -- not a decryption failure.
C8_DualPadding ==
    Probed =>
        LET framed == WithChecksum(probe.reading)
            padded == SenderPad(framed, probe.mode)
        IN  /\ probe.mode = "pkcs7" => ~unpad(padded, AES_block_size).exc
            /\ probe.mode # "pkcs7" => unpad(padded, AES_block_size).exc
            /\ probe.text = Text(framed)
            /\ probe.text = decrypt_aes(SenderEncrypt(framed, "pkcs7"))

\* a zero-padded plaintext was decoded although standard removal failed
C8_Witness ==
    /\ Probed
    /\ probe.mode = "zero"
    /\ ~Aligned(WithChecksum(probe.reading))
    /\ unpad(SenderPad(WithChecksum(probe.reading), "zero"), AES_block_size).exc
    /\ probe.text = Text(WithChecksum(probe.reading))

\* C9: a decryption failure does not abort the pipeline.  When decrypt_aes
\* yields None for a payload, the validity is None, no checksum failure is
\* counted, and on_message still computes the flow delta, records the
\* arrival, extracts the features from payload length and timing, consults
\* the classifier (when one is loaded) and counts the message.
C9_DecryptFailureContinues ==
    [][ (Delivered /\ last'.decrypted.none) =>
          LET c == last'
          IN  /\ c.checksum_valid = None
              /\ packet_stats'.checksum_failures = packet_stats.checksum_failures
              /\ c.stage = "done" /\ c.exit = "returned"
              /\ c.time_delta = flow_delta(last_packet_time, c.topic, c.timestamp)
              /\ last_packet_time'[c.topic] = c.timestamp
              /\ c.features =
                    extract_features(c.topic, c.payload_length, c.time_delta).val
              /\ c.features[1] = c.payload_length /\ c.features[2] = c.time_delta
              /\ c.consulted <=> ml_model # None
              /\ packet_stats'.total_packets = packet_stats.total_packets + 1
      ]_vars

\* an unencrypted 5-byte payload could not be decrypted and was nevertheless
\* classified (as an attack) and counted
C9_Witness ==
    /\ last.op = "on_message" /\ last.stage = "done"
    /\ last.decrypted.none
    /\ last.payload_length = 5
    /\ last.checksum_valid = None
    /\ last.consulted /\ last.is_attack
    /\ packet_stats.checksum_failures = 0
    /\ packet_stats.total_packets = 1
    /\ packet_stats.attacks_detected = 1

\* C10: no message terminates the ingest loop.  Whatever happens while a
\* message is processed, on_message returns normally and the loop is still
\* running, ready for the next message.
C10_LoopSurvives ==
    /\ loop # "crashed"
    /\ last.op = "on_message" => (last.exit = "returned" /\ loop = "running")

\* a message whose topic could not be read was dropped by the handler's
\* except clause, and the message after it was processed to the end
C10_Witness ==
    /\ nops = 2
    /\ last.op = "on_message" /\ last.stage = "done"
    /\ packet_stats.total_packets = 1
    /\ loop = "running"

\* the decrypted text of the call carries a checksum that does not match
Mismatch(call) ==
    /\ Truthy(call.decrypted)
    /\ Contains(call.decrypted.str, CH_PIPE)
    /\ LET parts == rsplit1(call.decrypted.str)
       IN  str_strip(parts[2]) # calculate_crc32(parts[1])

\* C11: an integrity error is counted and does not halt classification.  For
\* a message whose plaintext carries a checksum that does not match, the
\* validity is False, checksum_failures grows by exactly one, and the message
\* is feature-extracted, classified, counted in total_packets and (as an
\* attack) counted and logged exactly as its length and timing decide.
C11_IntegrityErrorCounted ==
    [][ Delivered =>
          LET c == last'
              decision == detect_intrusion(ml_model, scaler, c.features, c.cls)
          IN  /\ Mismatch(c) <=> c.checksum_valid = "False"
              /\ packet_stats'.checksum_failures =
                    packet_stats.checksum_failures + (IF Mismatch(c) THEN 1 ELSE 0)
              /\ Mismatch(c) =>
                    /\ c.stage = "done"
                    /\ c.features =
                          extract_features(c.topic, c.payload_length, c.time_delta).val
                    /\ c.consulted <=> ml_model # None
                    /\ c.is_attack = decision.is_attack
                    /\ c.confidence = decision.confidence
                    /\ packet_stats'.total_packets = packet_stats.total_packets + 1
                    /\ packet_stats'.attacks_detected =
                          packet_stats.attacks_detected + (IF c.is_attack THEN 1 ELSE 0)
                    /\ Len(attack_log') =
                          Len(attack_log) + (IF c.is_attack /\ c.logged THEN 1 ELSE 0)
      ]_vars

\* two messages with a wrong checksum: both counted as failures and as
\* packets, the last one classified as an attack and logged
C11_Witness ==
    /\ last.op = "on_message" /\ Mismatch(last)
    /\ last.checksum_valid = "False"
    /\ last.is_attack /\ last.confidence = 90
    /\ packet_stats.checksum_failures = 2
    /\ packet_stats.total_packets = 2
    /\ Len(attack_log) >= 1

(***************************************************************************)
(* SpecEnforce: one publisher, messages under every outcome of the filter  *)
(* command, and direct calls of block_ip and unblock_ip.                   *)
(***************************************************************************)
EnforceMessageStep ==
    \E cls \in {ClsAttack90, ClsBenign80}, res \in FilterResults, log_ok \in BOOLEAN :
        OnMessage(Msg("X", PayValid, Source), TICKS_PER_SEC, cls, res, log_ok)

NextEnforce ==
    \/ nops < MaxOps /\ EnforceMessageStep
    \/ nops < MaxOps /\ BlockStep
    \/ nops < MaxOps /\ UnblockStep
    \/ Shutdown

SpecEnforce == Init /\ [][NextEnforce]_vars

\* C12: an enforcement failure is contained and not retried.  When the
\* filter command run by block_ip fails (non-zero exit, or an exception), the
\* source is not added to blocked_ips, no counter changes and the command
\* has been attempted exactly once; a message detected as an attack issues
\* at most one deny command, is logged whatever the filter command does, and
\* completes; a benign message issues none.
C12_EnforcementFailureContained ==
    [][ /\ (CallOf("block_ip") /\ last'.res # "rc0" /\ last'.ip \notin blocked_ips) =>
              /\ UNCHANGED <<blocked_ips, packet_stats, iptables_rules, attack_log>>
              /\ deny_issued' = Bump(deny_issued, last'.ip)
        /\ CallOf("on_message") =>
              /\ \A ip \in IPs :
                    /\ deny_issued'[ip] >= deny_issued[ip]
                    /\ deny_issued'[ip] <=
                          deny_issued[ip] + (IF last'.is_attack THEN 1 ELSE 0)
              /\ last'.is_attack =>
                    /\ last'.stage = "done" /\ last'.exit = "returned"
                    /\ Len(attack_log') = Len(attack_log) + (IF last'.logged THEN 1 ELSE 0)
              /\ (last'.block_called /\ last'.res # "rc0") =>
                    /\ blocked_ips' = blocked_ips
                    /\ packet_stats'.ips_blocked = packet_stats.ips_blocked
      ]_vars

\* the command failed on one call and was attempted again, successfully, only
\* on the next call for the same source
C12_Witness ==
    /\ last.op = "block_ip" /\ last.res = "rc0"
    /\ last.prev.op = "block_ip" /\ last.prev.ip = last.ip /\ last.prev.res = "rc1"
    /\ nops = 2
    /\ deny_issued[last.ip] = 2
    /\ iptables_rules[last.ip] = 1
    /\ blocked_ips = {last.ip}
    /\ packet_stats.ips_blocked = 1

\* C13: no source identifier.  When a message is detected as an attack and
\* no source can be determined for it, enforcement is skipped -- no filter
\* command is run, blocked_ips, the installed rules and ips_blocked are
\* unchanged -- but the detection is counted in attacks_detected and, when
\* the log can be written, one entry with source None is appended.
C13_NoSourceSkipsEnforcement ==
    [][ (Delivered /\ last'.is_attack /\ last'.source_ip = None) =>
          /\ ~last'.block_called
          /\ UNCHANGED <<blocked_ips, iptables_rules, deny_issued>>
          /\ packet_stats'.ips_blocked = packet_stats.ips_blocked
          /\ packet_stats'.attacks_detected = packet_stats.attacks_detected + 1
          /\ last'.logged =>
                attack_log' = Append(attack_log,
                    [time |-> last'.timestamp, topic |-> last'.topic,
                     length |-> last'.payload_length, ip |-> None,
                     confidence |-> last'.confidence])
          /\ ~last'.logged => attack_log' = attack_log
      ]_vars

\* an attack from a publisher whose address the gateway cannot determine was
\* counted and logged with source None, and nothing was blocked
C13_Witness ==
    /\ last.op = "on_message" /\ last.is_attack
    /\ last.src = Source /\ last.source_ip = None
    /\ packet_stats.attacks_detected = 1
    /\ Len(attack_log) = 1 /\ attack_log[1].ip = None
    /\ blocked_ips = {}
    /\ deny_issued = [ip \in IPs |-> 0]
    /\ packet_stats.ips_blocked = 0

\* C14: membership in blocked_ips is monotonic unless an explicit unblock is
\* issued.  Across on_message, block_ip and shutdown steps a blocked source
\* stays blocked; a source leaves the set only by a call of unblock_ip for
\* that source whose command succeeds, and that call removes no other source.
C14_BlockedMonotonic ==
    [][ \A ip \in IPs :
          (ip \in blocked_ips /\ ip \notin blocked_ips') =>
              /\ CallOf("unblock_ip")
              /\ last'.ip = ip
              /\ last'.res = "rc0"
              /\ blocked_ips' = blocked_ips \ {ip}
      ]_vars

\* a blocked source is still blocked after a message detected as an attack
\* and a failed unblock
C14_Witness ==
    /\ last.op = "unblock_ip" /\ last.res = "rc1" /\ last.ip = Source
    /\ last.prev.op = "on_message"
    /\ nops = 3
    /\ packet_stats.attacks_detected = 1
    /\ blocked_ips = {Source}
    /\ packet_stats.ips_blocked = 1

\* C15: the per-source enforcement state machine.  A source goes from
\* Unblocked to Blocked on an attack decision for it while enforcement is
\* enabled (and the filter command succeeds), and only then; it goes from
\* Blocked to Unblocked only on an explicit unblock.
C15_EnforcementStateMachine ==
    [][ /\ (Delivered /\ last'.is_attack /\ ENABLE_AUTO_BLOCK) =>
              last'.src \in blocked_ips'
        /\ \A ip \in IPs :
              /\ (ip \notin blocked_ips /\ ip \in blocked_ips') =>
                    (Delivered /\ last'.is_attack /\ ENABLE_AUTO_BLOCK /\ last'.src = ip)
              /\ (ip \in blocked_ips /\ ip \notin blocked_ips') =>
                    (CallOf("unblock_ip") /\ last'.ip = ip)
      ]_vars

(***************************************************************************)
(* SpecScenarioA: a loaded classifier, one flow-key, one message a second, *)
(* every message classified below the attack threshold.                    *)
(***************************************************************************)
MaxScenarioAMsgs == 100

\* classifier answers below the threshold: either label with a confidence
\* under it, and a benign label without probability output
BelowThreshold ==
    {Cls(1, DETECTION_THRESHOLD - 1), Cls(0, DETECTION_THRESHOLD - 1), ClsNoProba(0)}

ScenarioAStep ==
    \E p \in {PayValid, PayPlain}, cls \in BelowThreshold :
        OnMessage(Msg("X", p, Source), TICKS_PER_SEC, cls, "rc0", TRUE)

NextScenarioA == nops < MaxScenarioAMsgs /\ ScenarioAStep

SpecScenarioA == InitScenarioB /\ [][NextScenarioA]_vars

\* C16: scenario A.  After any number of messages on one flow-key at
\* 1-second intervals, each classified below the threshold -- in particular
\* after 100 -- no block event has happened, the attack log is empty,
\* attacks_detected is 0 and total_packets is the number of messages.
C16_ScenarioA ==
    /\ packet_stats.attacks_detected = 0
    /\ packet_stats.ips_blocked = 0
    /\ blocked_ips = {}
    /\ deny_issued = [ip \in IPs |-> 0]
    /\ attack_log = << >>
    /\ packet_stats.total_packets = nops
    /\ nops > 1 => last.time_delta = TICKS_PER_SEC

\* the hundredth message, an attack label just below the threshold
C16_Witness ==
    /\ nops = 100
    /\ packet_stats.total_packets = 100
    /\ last.op = "on_message" /\ last.topic = "X"
    /\ last.cls.prediction = 1 /\ last.confidence = DETECTION_THRESHOLD - 1
    /\ ~last.is_attack
    /\ last.timestamp = 100 * TICKS_PER_SEC
    /\ attack_log = << >>

\* C17: the feature vector is finite.  For every elapsed time >= 0, zero
\* included, extract_features returns a vector of exactly 5 entries whose
\* first and fifth are the payload length and whose rate is
\* 1 / (elapsed + 0.001) with a strictly positive denominator; the division
\* does not raise.
C17_FeaturesFinite ==
    [][ (Delivered /\ last'.time_delta >= 0) =>
          LET c == last'
              f == c.features
          IN  /\ c.stage = "done"
              /\ ~extract_features(c.topic, c.payload_length, c.time_delta).exc
              /\ Len(f) = 5
              /\ f[1] = c.payload_length /\ f[5] = c.payload_length
              /\ f[2] = c.time_delta
              /\ f[3] = Len(c.topic)
              /\ f[4].num = RateNum
              /\ f[4].den = RateDen(c.time_delta)
              /\ f[4].den >= TICKS_PER_SEC \div 8
      ]_vars

\* the same flow-key twice at the same instant: elapsed 0, rate 1 / 0.001
C17_Witness ==
    /\ last.op = "on_message" /\ last.stage = "done"
    /\ nops = 2 /\ packet_stats.total_packets = 2
    /\ DOMAIN last_packet_time = {"X"}
    /\ last.time_delta = 0
    /\ last.features[4] = [num |-> 1000 * (TICKS_PER_SEC \div 8), den |-> TICKS_PER_SEC \div 8]
    /\ last.features[1] = 16 /\ last.features[5] = 16

(***************************************************************************)
(* The feature vector at training time.  The collectors write one row per  *)
(* message with the columns below; train_with_custom_data selects          *)
(* feature_cols, in that order, as the classifier's input.  Each entry is  *)
(* held with the quantity it is computed from, so that two vectors can be  *)
(* compared position by position.                                          *)
(***************************************************************************)
Quantity(what, val) == [what |-> what, val |-> val]

\* extract_features of collect_normal_data.py and collect_attack_data.py: the
\* row's feature columns (the label column aside)
collector_extract_features(topic, payload_length, time_delta) ==
    LET packets_per_sec == [num |-> RateNum, den |-> RateDen(time_delta)]
        bytes_per_sec == [times |-> payload_length, num |-> RateNum,
                          den |-> RateDen(time_delta)]
    IN  [col \in {"flow_pkts_payload.max", "flow_iat.std", "flow_pkts_per_sec",
                  "payload_bytes_per_second", "flow_pkts_payload.tot"} |->
            CASE col = "flow_pkts_payload.max" -> Quantity("payload_length", payload_length)
              [] col = "flow_iat.std" -> Quantity("time_delta", time_delta)
              [] col = "flow_pkts_per_sec" ->
                    Quantity("1.0 / (time_delta + 0.001)", packets_per_sec)
              [] col = "payload_bytes_per_second" ->
                    Quantity("payload_length / (time_delta + 0.001)", bytes_per_sec)
              [] col = "flow_pkts_payload.tot" -> Quantity("payload_length", payload_length)]

\* feature_cols of train_with_custom_data.py
feature_cols ==
    <<"flow_pkts_payload.max", "flow_iat.std", "flow_pkts_per_sec",
      "payload_bytes_per_second", "flow_pkts_payload.tot">>

\* the row of X the classifier is fitted on: df[feature_cols]
training_vector(topic, payload_length, time_delta) ==
    [i \in 1..Len(feature_cols) |->
        collector_extract_features(topic, payload_length, time_delta)[feature_cols[i]]]

\* the vector the gateway's extract_features builds, entry by entry
inference_vector(topic, payload_length, time_delta) ==
    LET f == extract_features(topic, payload_length, time_delta).val
    IN  <<Quantity("payload_length", f[1]),
          Quantity("time_delta", f[2]),
          Quantity("len(topic)", f[3]),
          Quantity("1.0 / (time_delta + 0.001)", f[4]),
          Quantity("payload_length", f[5])>>

\* C18: the vector built at inference time has the same length as the vector
\* the classifier is trained on and, position by position, the same quantity
\* with the same value (the rate computed with the same 0.001 guard).
C18_FeatureVectorsAgree ==
    (last.op = "on_message" /\ last.stage = "done") =>
        LET inferred == inference_vector(last.topic, last.payload_length, last.time_delta)
            trained == training_vector(last.topic, last.payload_length, last.time_delta)
        IN  /\ Len(inferred) = Len(trained)
            /\ \A i \in 1..Len(inferred) :
                  /\ inferred[i].what = trained[i].what
                  /\ inferred[i].val = trained[i].val

\* C19: the shutdown flush.  While the loop runs nothing has been reported;
\* at the shutdown signal the gateway reports once -- the statistics, then
\* the blocked sources, then it disconnects -- the reported counters and
\* sources are those accumulated up to that point, and after the flush no
\* message is processed: nothing changes any more.
C19_ShutdownFlush ==
    /\ [](loop = "running" => flushed = << >>)
    /\ [](loop = "stopped" =>
            /\ Len(flushed) = 3
            /\ flushed[1].kind = "print_statistics" /\ flushed[1].value = packet_stats
            /\ flushed[2].kind = "list_blocked_ips" /\ flushed[2].value = blocked_ips
            /\ flushed[3].kind = "disconnect"
            /\ packet_stats.total_packets <= nops)
    /\ [][ (loop = "running" /\ loop' = "stopped") =>
              UNCHANGED <<packet_stats, blocked_ips, attack_log, last_packet_time, nops>>
         ]_vars
    /\ [][ loop = "stopped" => UNCHANGED vars ]_vars

\* shutdown after two counted messages, one of them an attack: the report
\* carries these counts
C19_Witness ==
    /\ loop = "stopped" /\ last.op = "shutdown" /\ last.prev.op = "on_message"
    /\ Len(flushed) = 3
    /\ flushed[1].value.total_packets = 2
    /\ flushed[1].value.attacks_detected = 1
    /\ flushed[2].value = {}
    /\ nops = 2

(***************************************************************************)
(* The transport.  main() connects (client.connect), then loop_forever     *)
(* runs: the broker's CONNACK arrives and on_connect(rc) is called; when   *)
(* the connection is lost the client library reconnects by itself and      *)
(* on_connect is called again with the new CONNACK's result code.  Here    *)
(* `loop` is "starting" before client.connect, "handshake" while the loop  *)
(* waits for a CONNACK, "running" once subscribed, and "exited" when the   *)
(* process has ended through sys.exit(1).                                  *)
(***************************************************************************)
\* CONNACK result codes: accepted, and refused (not authorised)
ConnackCodes == {0, 5}

ConnackName(rc) == IF rc = 0 THEN "accepted" ELSE "refused"

\* on_connect(client, userdata, flags, rc): subscribe, or sys.exit(1)
on_connect(rc) == IF rc = 0 THEN "running" ELSE "exited"

\* lines 455-460: client.connect raises when the broker cannot be reached
connect(ok) == IF ok THEN "handshake" ELSE "exited"

TransportFrame ==
    UNCHANGED <<ml_model, scaler, blocked_ips, last_packet_time, packet_stats,
                attack_log, iptables_rules, deny_issued, now, flushed, nops, probe>>

Connect(ok) ==
    /\ loop = "starting"
    /\ loop' = connect(ok)
    /\ last' = [NoCall EXCEPT !.op = "connect",
                              !.res = IF ok THEN "connected" ELSE "failed",
                              !.prev = Prev]
    /\ TransportFrame

OnConnect(rc) ==
    /\ loop = "handshake"
    /\ loop' = on_connect(rc)
    /\ last' = [NoCall EXCEPT !.op = "on_connect", !.res = ConnackName(rc), !.prev = Prev]
    /\ TransportFrame

\* the connection breaks while the loop runs; the library starts to reconnect
ConnectionLost ==
    /\ loop = "running"
    /\ loop' = "handshake"
    /\ last' = [NoCall EXCEPT !.op = "connection_lost", !.prev = Prev]
    /\ TransportFrame

InitTransport ==
    /\ \E artifact \in Artifacts :
          /\ ml_model = load_model(artifact).ml_model
          /\ scaler = load_model(artifact).scaler
    /\ blocked_ips = {}
    /\ last_packet_time = << >>
    /\ packet_stats = [total_packets |-> 0, attacks_detected |-> 0,
                       ips_blocked |-> 0, checksum_failures |-> 0]
    /\ attack_log = << >>
    /\ iptables_rules = [ip \in IPs |-> 0]
    /\ deny_issued = [ip \in IPs |-> 0]
    /\ now = 0
    /\ loop = "starting"
    /\ flushed = << >>
    /\ last = NoCall
    /\ nops = 0
    /\ probe = NoProbe

TransportMessageStep ==
    Deliver({Msg("X", PayValid, Source)}, {TICKS_PER_SEC}, {ClsAttack90, ClsBenign80}, {TRUE})

NextTransport ==
    \/ \E ok \in BOOLEAN : Connect(ok)
    \/ \E rc \in ConnackCodes : OnConnect(rc)
    \/ ConnectionLost
    \/ nops < MaxOps /\ TransportMessageStep
    \/ Shutdown

SpecTransport == InitTransport /\ [][NextTransport]_vars

\* C20: transport errors are fatal only at startup.  A connect failure
\* before the loop starts ends the process; once the loop has been running,
\* a connection failure -- the connect callback called with a non-zero result
\* code after a reconnect -- does not.
C20_TransportErrorsFatalOnlyAtStartup ==
    [][ /\ (last'.op = "connect" /\ last.op # "connect" /\ last'.res = "failed") =>
              loop' = "exited"
        /\ (last.op = "connection_lost" /\ last'.op = "on_connect") =>
              loop' # "exited"
      ]_vars

\* scaling or prediction raised on the call
ClassifierError(call) ==
    /\ call.consulted
    /\ call.cls.predict_exc \/ (scaler # None /\ call.cls.scale_exc)

\* C21: a classifier error is fail-open.  When scaler.transform or predict
\* raises inside detect_intrusion, the decision for the message is
\* (benign, 0.0): the message is counted in total_packets, attacks_detected
\* is unchanged, and nothing is blocked or logged.
C21_ClassifierErrorFailOpen ==
    [][ (Delivered /\ ClassifierError(last')) =>
          /\ ~last'.is_attack /\ last'.confidence = 0
          /\ detect_intrusion(ml_model, scaler, last'.features, last'.cls) =
                [is_attack |-> FALSE, confidence |-> 0]
          /\ last'.stage = "done" /\ last'.exit = "returned"
          /\ packet_stats'.total_packets = packet_stats.total_packets + 1
          /\ packet_stats'.attacks_detected = packet_stats.attacks_detected
          /\ packet_stats'.ips_blocked = packet_stats.ips_blocked
          /\ UNCHANGED <<attack_log, blocked_ips, iptables_rules, deny_issued>>
      ]_vars

\* the scaler raised on the second message, after a first one was detected
\* and logged as an attack: still one attack, one log entry, two packets
C21_Witness ==
    /\ last.op = "on_message" /\ ClassifierError(last)
    /\ scaler # None /\ last.cls.scale_exc /\ ~last.cls.predict_exc
    /\ ~last.is_attack /\ last.confidence = 0
    /\ nops = 2 /\ packet_stats.total_packets = 2
    /\ packet_stats.attacks_detected = 1
    /\ Len(attack_log) = 1

\* every threshold between 0 and 1, in percent
Thresholds == 0..100

\* C22: the confidence fallback.  When the classifier has no probability
\* output, the confidence is 1.0 for an attack label and 0.0 otherwise, so
\* that for every threshold in [0, 1] its attack label passes the threshold
\* test and the message is an attack exactly when the label is attack; with
\* a probability output the confidence is the probability of the predicted
\* class.
C22_ConfidenceFallback ==
    [][ (Delivered /\ Predicted(last')) =>
          LET c == last'
          IN  /\ c.cls.proba_exc =>
                    /\ c.confidence = (IF c.cls.prediction = 1 THEN 100 ELSE 0)
                    /\ c.is_attack <=> c.cls.prediction = 1
                    /\ \A t \in Thresholds :
                          (c.cls.prediction = 1 /\ c.confidence >= t) <=> c.cls.prediction = 1
              /\ ~c.cls.proba_exc => c.confidence = c.cls.proba
      ]_vars

\* an attack label without probability output, decided an attack with
\* confidence 1.0, after a benign one with confidence 0.0
C22_Witness ==
    /\ last.op = "on_message" /\ Predicted(last)
    /\ last.cls.proba_exc /\ last.cls.prediction = 1
    /\ last.is_attack /\ last.confidence = 100
    /\ nops = 2 /\ packet_stats.total_packets = 2
    /\ packet_stats.attacks_detected = 1

\* the log line written for a call of on_message
LogEntry(call) ==
    [time |-> call.timestamp, topic |-> call.topic, length |-> call.payload_length,
     ip |-> call.source_ip, confidence |-> call.confidence]

\* C23: the attack log is append-only, one line per attack.  A message
\* decided an attack appends exactly one entry (timestamp, flow key, payload
\* length, source or None, confidence) when the log file can be written; a
\* benign message appends none; no operation changes or removes an existing
\* entry; and each step whose log write succeeds keeps the number of entries
\* equal to attacks_detected.
C23_AttackLogAppendOnly ==
    [][ /\ (Delivered /\ last'.is_attack /\ last'.logged) =>
              attack_log' = Append(attack_log, LogEntry(last'))
        /\ ~(Delivered /\ last'.is_attack /\ last'.logged) =>
              attack_log' = attack_log
        /\ (/\ Len(attack_log) = packet_stats.attacks_detected
            /\ (Delivered /\ last'.is_attack) => last'.logged) =>
              Len(attack_log') = packet_stats'.attacks_detected
      ]_vars

\* two attacks, each logged on its own line after the other, and as many
\* lines as attacks counted
C23_Witness ==
    /\ last.op = "on_message" /\ last.is_attack /\ last.logged
    /\ Len(attack_log) = 2 /\ packet_stats.attacks_detected = 2
    /\ attack_log[2] = LogEntry(last)
    /\ attack_log[1].time < attack_log[2].time

\* the statistics counters
Counters == {"total_packets", "attacks_detected", "checksum_failures", "ips_blocked"}

\* C24: the statistics counters live as long as the process.  Each of
\* total_packets, attacks_detected, checksum_failures and ips_blocked is 0
\* before the first operation and never decreases under messages, block_ip,
\* unblock_ip and shutdown; total_packets grows by exactly one with every
\* message processed without error, and by nothing else.
C24_CountersMonotone ==
    /\ [](nops = 0 => \A k \in Counters : packet_stats[k] = 0)
    /\ [][ /\ DOMAIN packet_stats' = Counters
           /\ \A k \in Counters : packet_stats'[k] >= packet_stats[k]
           /\ (CallOf("on_message") /\ last'.stage = "done") =>
                 packet_stats'.total_packets = packet_stats.total_packets + 1
           /\ ~(CallOf("on_message") /\ last'.stage = "done") =>
                 packet_stats'.total_packets = packet_stats.total_packets
         ]_vars

\* a source was blocked and unblocked again and a message was processed:
\* the counters kept what they had counted
C24_Witness ==
    /\ last.op = "on_message" /\ last.stage = "done"
    /\ last.prev.op = "unblock_ip" /\ last.prev.res = "rc0"
    /\ nops = 3
    /\ packet_stats.ips_blocked = 1 /\ blocked_ips = {}
    /\ packet_stats.total_packets = 1

(***************************************************************************)
(* SpecChurn: publishers keep moving to topics the gateway has not seen    *)
(* before -- one more distinct topic than a tracker of FlowCapacity        *)
(* entries could hold.                                                     *)
(***************************************************************************)
FlowCapacity == 3

ChurnNames == <<"a", "b", "c", "d", "e", "f", "g", "h">>

ChurnTopics == {ChurnNames[i] : i \in 1..(FlowCapacity + 1)}

ChurnStep ==
    Deliver({Msg(t, PayPlain, Source) : t \in ChurnTopics},
            {TICKS_PER_SEC}, {ClsAttack90, ClsBenign80}, {TRUE})

NextChurn ==
    \/ nops < FlowCapacity + 1 /\ ChurnStep
    \/ Shutdown

SpecChurn == Init /\ [][NextChurn]_vars

\* C25: the flow tracker's memory is bounded.  Under any sequence of
\* observations, including churn of distinct flow keys, the number of keys of
\* last_packet_time stays within a fixed bound (FlowCapacity), stale entries
\* being evicted.
C25_FlowMemoryBounded ==
    Cardinality(DOMAIN last_packet_time) <= FlowCapacity

(***************************************************************************)
(* SpecRace: block_ip called from two threads.  Nothing in block_ip takes  *)
(* a lock, so a thread can be preempted between the membership test (line  *)
(* 313), the filter command (line 319) and the update of the set and the   *)
(* counter (lines 322-323).  `probe` holds each thread's position and the  *)
(* argument of its call; the filter command succeeds.                      *)
(***************************************************************************)
Threads == {1, 2}

\* lines 313-315: a thread enters block_ip(ip) and tests the membership
BlockIpCheck(t, ip) ==
    /\ probe[t].pc \in {"idle", "returned"}
    /\ nops < MaxOps
    /\ probe' = [probe EXCEPT ![t] =
          [pc |-> IF ip \in blocked_ips THEN "returned" ELSE "command", ip |-> ip]]
    /\ nops' = nops + 1
    /\ UNCHANGED <<ml_model, scaler, blocked_ips, last_packet_time, packet_stats,
                   attack_log, iptables_rules, deny_issued, now, loop, flushed, last>>

\* lines 318-321: subprocess.run appends the DROP rule and exits 0
BlockIpCommand(t) ==
    /\ probe[t].pc = "command"
    /\ deny_issued' = Bump(deny_issued, probe[t].ip)
    /\ iptables_rules' = Bump(iptables_rules, probe[t].ip)
    /\ probe' = [probe EXCEPT ![t].pc = "update"]
    /\ UNCHANGED <<ml_model, scaler, blocked_ips, last_packet_time, packet_stats,
                   attack_log, now, loop, flushed, last, nops>>

\* lines 322-324: the source is added and counted
BlockIpUpdate(t) ==
    /\ probe[t].pc = "update"
    /\ blocked_ips' = blocked_ips \cup {probe[t].ip}
    /\ packet_stats' = [packet_stats EXCEPT !.ips_blocked = @ + 1]
    /\ probe' = [probe EXCEPT ![t].pc = "returned"]
    /\ UNCHANGED <<ml_model, scaler, last_packet_time, attack_log, iptables_rules,
                   deny_issued, now, loop, flushed, last, nops>>

InitRace ==
    /\ ml_model = "model" /\ scaler = None /\ InitGlobals
    /\ probe = [t \in Threads |-> [pc |-> "idle", ip |-> None]]

SpecRace ==
    InitRace
    /\ [][\E t \in Threads :
             \/ \E ip \in IPs : BlockIpCheck(t, ip)
             \/ BlockIpCommand(t)
             \/ BlockIpUpdate(t)]_vars

\* C26: concurrent block attempts preserve idempotency.  When block_ip runs
\* in two threads for the same source, interleaved at the membership test,
\* the filter command and the update, the deny command is issued once for
\* the source, and ips_blocked counts the source once (it equals the number
\* of entries of blocked_ips).
C26_ConcurrentBlockIdempotent ==
    /\ \A ip \in IPs : deny_issued[ip] <= 1 /\ iptables_rules[ip] <= 1
    /\ (\A t \in Threads : probe[t].pc \in {"idle", "returned"}) =>
          packet_stats.ips_blocked = Cardinality(blocked_ips)

(***************************************************************************)
(* SpecFlowRace: on_message's flow bookkeeping run by two threads, one     *)
(* message each.  The timestamp is taken at line 166, last_packet_time is  *)
(* read at lines 185-188 and written at line 190, with no lock around      *)
(* them.  `probe.base` is last_packet_time before the two messages and     *)
(* `probe.th` each thread's position and local values.                     *)
(***************************************************************************)
InitFlowRace ==
    /\ ml_model = "model" /\ scaler = None /\ InitGlobals
    /\ probe = [base |-> << >>,
                th |-> [t \in Threads |-> [pc |-> "idle", topic |-> None,
                                           timestamp |-> 0, time_delta |-> 0]]]

\* lines 166-167: timestamp = time.time(); topic = msg.topic
FlowStamp(t, topic, dt) ==
    /\ probe.th[t].pc = "idle"
    /\ now' = now + dt
    /\ probe' = [probe EXCEPT !.th[t] = [pc |-> "stamped", topic |-> topic,
                                         timestamp |-> now + dt, time_delta |-> 0]]
    /\ nops' = nops + 1
    /\ UNCHANGED <<ml_model, scaler, blocked_ips, last_packet_time, packet_stats,
                   attack_log, iptables_rules, deny_issued, loop, flushed, last>>

\* lines 185-188: the delta from the topic's last packet
FlowRead(t) ==
    /\ probe.th[t].pc = "stamped"
    /\ probe' = [probe EXCEPT !.th[t].pc = "read",
                              !.th[t].time_delta =
                                  flow_delta(last_packet_time, probe.th[t].topic,
                                             probe.th[t].timestamp)]
    /\ UNCHANGED <<ml_model, scaler, blocked_ips, last_packet_time, packet_stats,
                   attack_log, iptables_rules, deny_issued, now, loop, flushed, last,
                   nops>>

\* line 190: last_packet_time[topic] = timestamp
FlowWrite(t) ==
    /\ probe.th[t].pc = "read"
    /\ last_packet_time' = flow_update(last_packet_time, probe.th[t].topic,
                                       probe.th[t].timestamp)
    /\ probe' = [probe EXCEPT !.th[t].pc = "written"]
    /\ UNCHANGED <<ml_model, scaler, blocked_ips, packet_stats, attack_log,
                   iptables_rules, deny_issued, now, loop, flushed, last, nops>>

SpecFlowRace ==
    InitFlowRace
    /\ [][\E t \in Threads :
             \/ \E topic \in Topics, dt \in {0, 1, TICKS_PER_SEC} : FlowStamp(t, topic, dt)
             \/ FlowRead(t)
             \/ FlowWrite(t)]_vars

\* C27: flow-state updates are atomic per flow key.  When two observations
\* are processed concurrently, then once both have written: for the same
\* flow key, the two deltas and the stored time are those of one of the two
\* serial orders (the first observation's delta is taken from the state
\* before both, the second's from the first's timestamp, and the second's
\* timestamp is stored); for different flow keys, each is processed as if
\* alone.
C27_FlowUpdatesSerialized ==
    LET th == probe.th
        alone(t) ==
            /\ th[t].time_delta = flow_delta(probe.base, th[t].topic, th[t].timestamp)
    IN  (\A t \in Threads : th[t].pc = "written") =>
          IF th[1].topic = th[2].topic
          THEN \E a, b \in Threads :
                  /\ a # b
                  /\ alone(a)
                  /\ th[b].time_delta = th[b].timestamp - th[a].timestamp
                  /\ last_packet_time[th[b].topic] = th[b].timestamp
          ELSE \A t \in Threads :
                  alone(t) /\ last_packet_time[th[t].topic] = th[t].timestamp

(***************************************************************************)
(* SpecHang: external calls that do not return.  block_ip runs the filter  *)
(* command with subprocess.run without a timeout argument (line 319), and  *)
(* detect_intrusion calls the classifier directly (lines 283-291); while   *)
(* such a call has not returned the calling thread -- the one that runs    *)
(* loop_forever -- is blocked and the clock goes on.                       *)
(***************************************************************************)
\* seconds within which a bounded call would have given up
CommandTimeout == 2

\* block_ip(ip) whose filter command does not exit (sudo waiting for a
\* password, a held xtables lock)
CommandHangs(ip) ==
    /\ loop = "running"
    /\ ip \notin blocked_ips
    /\ deny_issued' = Bump(deny_issued, ip)
    /\ last' = [NoCall EXCEPT !.op = "block_ip", !.ip = ip, !.res = "hang",
                              !.exit = "waiting", !.stage = "command",
                              !.timestamp = now, !.prev = Prev]
    /\ loop' = "blocked"
    /\ nops' = nops + 1
    /\ UNCHANGED <<ml_model, scaler, blocked_ips, last_packet_time, packet_stats,
                   attack_log, iptables_rules, now, flushed, probe>>

\* on_message for a message whose classifier call (line 196) does not return
ClassifierHangs(msg, dt) ==
    /\ loop = "running"
    /\ ml_model # None /\ msg.topic_ok
    /\ LET timestamp == now + dt
           checked == check_payload(msg.payload)
       IN  /\ packet_stats' = IF checked.checksum_valid = "False"
                              THEN Bump(packet_stats, "checksum_failures")
                              ELSE packet_stats
           /\ last_packet_time' = flow_update(last_packet_time, msg.topic, timestamp)
           /\ last' = [NoCall EXCEPT !.op = "on_message", !.src = msg.src,
                                     !.topic = msg.topic, !.timestamp = timestamp,
                                     !.checksum_valid = checked.checksum_valid,
                                     !.consulted = TRUE,
                                     !.exit = "waiting", !.stage = "classifier",
                                     !.prev = Prev]
    /\ loop' = "blocked"
    /\ now' = now + dt
    /\ nops' = nops + 1
    /\ UNCHANGED <<ml_model, scaler, blocked_ips, attack_log, iptables_rules,
                   deny_issued, flushed, probe>>

\* a second passes while the call has not returned
Wait ==
    /\ loop = "blocked"
    /\ now - last.timestamp <= CommandTimeout * TICKS_PER_SEC
    /\ now' = now + TICKS_PER_SEC
    /\ UNCHANGED <<ml_model, scaler, blocked_ips, last_packet_time, packet_stats,
                   attack_log, iptables_rules, deny_issued, loop, flushed, last, nops,
                   probe>>

SpecHang ==
    Init
    /\ [][\/ nops < MaxOps /\ MessageStep
          \/ nops < MaxOps /\ loop = "running" /\ BlockStep
          \/ nops < MaxOps /\ \E ip \in IPs : CommandHangs(ip)
          \/ nops < MaxOps /\ \E p \in {PayValid, PayBadSum} :
                                 ClassifierHangs(Msg("X", p, Source), TICKS_PER_SEC)
          \/ Wait
          \/ Shutdown]_vars

\* C28: no pipeline operation blocks indefinitely.  The filter command
\* issued by block_ip and the classifier call return within a bounded
\* timeout (CommandTimeout seconds), so a call is never still waiting for
\* them after that time and the loop goes on to the next message.
C28_NoIndefiniteBlocking ==
    loop = "blocked" => now - last.timestamp <= CommandTimeout * TICKS_PER_SEC

(***************************************************************************)
(* SpecSteps: on_message statement by statement after the classification, *)
(* on the thread that runs loop_forever.  `probe.pc` is the handler's      *)
(* position and `probe.call` the message's local values.  The log file    *)
(* can be written.  KeyboardInterrupt is raised in this thread, between    *)
(* two statements of whatever it is running.                               *)
(***************************************************************************)
InitSteps ==
    /\ \E artifact \in {"missing", "dict"} :
          /\ ml_model = load_model(artifact).ml_model
          /\ scaler = load_model(artifact).scaler
    /\ InitGlobals
    /\ probe = [pc |-> "idle", call |-> NoCall]

\* lines 166-196: the message is received, checked, its flow updated, its
\* features extracted and classified
Receive(msg, dt, cls) ==
    /\ loop = "running" /\ probe.pc = "idle"
    /\ LET env == [timestamp |-> now + dt, cls |-> cls, res |-> "rc0", log_ok |-> TRUE]
           r == on_message(Globals, ml_model, scaler, msg, env)
       IN  /\ r.obs.stage = "done"
           /\ last_packet_time' = r.g.last_packet_time
           /\ packet_stats' = [packet_stats EXCEPT !.checksum_failures =
                                   r.g.packet_stats.checksum_failures]
           /\ probe' = [pc |-> "classified", call |-> r.obs]
    /\ now' = now + dt
    /\ nops' = nops + 1
    /\ UNCHANGED <<ml_model, scaler, blocked_ips, attack_log, iptables_rules,
                   deny_issued, loop, flushed, last>>

\* lines 198-231, one statement at a time
OnMessageStep ==
    /\ loop = "running"
    /\ \/ /\ probe.pc = "classified"                       \* line 198
          /\ packet_stats' = Bump(packet_stats, "total_packets")
          /\ probe' = [probe EXCEPT !.pc = IF probe.call.is_attack
                                           THEN "counted" ELSE "idle"]
          /\ last' = IF probe.call.is_attack THEN last
                     ELSE [probe.call EXCEPT !.prev = Prev]
          /\ UNCHANGED <<blocked_ips, attack_log, iptables_rules, deny_issued>>
       \/ /\ probe.pc = "counted"                          \* line 204
          /\ packet_stats' = Bump(packet_stats, "attacks_detected")
          /\ probe' = [probe EXCEPT !.pc = "attack_counted"]
          /\ UNCHANGED <<blocked_ips, attack_log, iptables_rules, deny_issued, last>>
       \/ /\ probe.pc = "attack_counted"                   \* lines 214-217
          /\ LET g == IF probe.call.block_called
                      THEN block_ip(Globals, probe.call.source_ip, "rc0")
                      ELSE Globals
             IN  /\ blocked_ips' = g.blocked_ips
                 /\ packet_stats' = g.packet_stats
                 /\ iptables_rules' = g.iptables_rules
                 /\ deny_issued' = g.deny_issued
          /\ probe' = [probe EXCEPT !.pc = "enforced"]
          /\ UNCHANGED <<attack_log, last>>
       \/ /\ probe.pc = "enforced"                         \* line 220
          /\ attack_log' = log_attack(Globals, probe.call.timestamp, probe.call.topic,
                                      probe.call.payload_length, probe.call.source_ip,
                                      probe.call.confidence, TRUE).attack_log
          /\ probe' = [probe EXCEPT !.pc = "idle"]
          /\ last' = [probe.call EXCEPT !.prev = Prev]
          /\ UNCHANGED <<blocked_ips, packet_stats, iptables_rules, deny_issued>>
    /\ UNCHANGED <<ml_model, scaler, last_packet_time, now, loop, flushed, nops>>

\* KeyboardInterrupt while on_message is between two of these statements:
\* it is not an Exception, so it leaves the handler (line 230) and
\* loop_forever, and main() prints the statistics and the blocked sources
\* and disconnects (lines 465-470)
Interrupt ==
    /\ loop = "running" /\ probe.pc # "idle"
    /\ loop' = "stopped"
    /\ flushed' = disconnect(list_blocked_ips(print_statistics(flushed, packet_stats),
                                              blocked_ips))
    /\ last' = [NoCall EXCEPT !.op = "shutdown", !.prev = Prev]
    /\ UNCHANGED <<ml_model, scaler, blocked_ips, last_packet_time, packet_stats,
                   attack_log, iptables_rules, deny_issued, now, nops, probe>>

SpecSteps ==
    InitSteps
    /\ [][\/ nops < MaxOps /\ \E t \in Topics, p \in {PayValid, PayBadSum},
                                 cls \in {ClsAttack90, ClsBenign80} :
                                 Receive(Msg(t, p, Source), TICKS_PER_SEC, cls)
          \/ OnMessageStep
          \/ Interrupt
          \/ probe.pc = "idle" /\ Shutdown]_vars

\* C29: per-message stage order.  A message is received, verified, its
\* features extracted and classified, then logged and (if an attack)
\* enforced, and counted last: total_packets is incremented only when the
\* message's enforcement and logging have completed.
C29_CountedLast ==
    [][ packet_stats'.total_packets # packet_stats.total_packets =>
          /\ probe.pc # "idle"
          /\ probe.call.is_attack => probe.pc = "enforced"
      ]_vars

\* C30: shutdown takes effect only between messages.  A shutdown signal
\* does not cut a message short: when the statistics have been flushed, the
\* handler is not in the middle of a message, and every attack counted in
\* attacks_detected has its line in the attack log.
C30_ShutdownBetweenMessages ==
    loop = "stopped" =>
        /\ Len(flushed) > 0
        /\ probe.pc = "idle"
        /\ Len(attack_log) = packet_stats.attacks_detected

(***************************************************************************)
(* SpecIntegrity: two flows, payloads whose checksum verifies and payloads *)
(* whose checksum does not, under a loaded classifier.                     *)
(***************************************************************************)
SpecIntegrity ==
    InitScenarioB
    /\ [][\/ nops < MaxOps /\
               Deliver({Msg(t, p, Source) : t \in Topics, p \in {PayValid, PayBadSum}},
                       {TICKS_PER_SEC}, {ClsAttack90, ClsBenign80}, {TRUE})
          \/ Shutdown]_vars

\* C31: classification does not depend on the integrity outcome.  From every
\* reachable state, two messages with the same topic, payload length and
\* arrival time, one with a valid checksum and one with any other content
\* (valid under the other padding, invalid, missing, or not decryptable to
\* text), handled from
\* globals that differ at most in checksum_failures, get the same features,
\* the same decision and confidence, and leave the same blocked set, attack
\* log, flow state, total_packets and attacks_detected: only
\* checksum_failures may differ.
C31_IntegrityNonInterference ==
    LET contents == {PayValid, PayValidZero, PayBadSum, PayNoDelim, PayNotUtf8}
        hide(g) == [g EXCEPT !.packet_stats.checksum_failures = 0]
    IN  \A topic \in Topics, cls \in {ClsAttack90, ClsBenign80} :
          LET env == [timestamp |-> now + TICKS_PER_SEC, cls |-> cls,
                      res |-> "rc0", log_ok |-> TRUE]
              r1 == on_message(Globals, ml_model, scaler,
                               Msg(topic, PayValid, Source), env)
          IN  \A p2 \in contents, k \in {0, 1} :
                LET other == [Globals EXCEPT !.packet_stats.checksum_failures = @ + k]
                    r2 == on_message(other, ml_model, scaler,
                                     Msg(topic, p2, Source), env)
                IN  /\ PayloadLen(p2) = PayloadLen(PayValid)
                    /\ r1.obs.features = r2.obs.features
                    /\ r1.obs.is_attack = r2.obs.is_attack
                    /\ r1.obs.confidence = r2.obs.confidence
                    /\ hide(r1.g) = hide(r2.g)

\* two attacks in a row, the second one's checksum wrong and the first one's
\* not: both were decided and counted alike, one integrity failure noted
C31_Witness ==
    /\ last.op = "on_message" /\ last.checksum_valid = "False" /\ last.is_attack
    /\ nops = 2
    /\ packet_stats.checksum_failures = 1
    /\ packet_stats.total_packets = 2 /\ packet_stats.attacks_detected = 2
    /\ Len(attack_log) = 2

\* C32: ips_blocked counts successful block transitions and unblock_ip never
\* takes one back.  In every reachable state ips_blocked is at least the
\* number of sources in blocked_ips; a successful block of a source that is
\* not blocked adds one, unblock_ip leaves the count alone; and after block,
\* successful unblock and block again of one source, ips_blocked is 2 while
\* blocked_ips holds the source once.
C32_BlockedCountNeverDecremented ==
    /\ [](/\ packet_stats.ips_blocked >= Cardinality(blocked_ips)
          /\ (/\ nops = 3 /\ last.op = "block_ip" /\ last.res = "rc0"
              /\ last.prev.op = "unblock_ip" /\ last.prev.res = "rc0"
              /\ last.prev.ip = last.ip) =>
                /\ packet_stats.ips_blocked = 2
                /\ blocked_ips = {last.ip})
    /\ [][ /\ (CallOf("block_ip") /\ last'.res = "rc0" /\ last'.ip \notin blocked_ips) =>
                 /\ packet_stats'.ips_blocked = packet_stats.ips_blocked + 1
                 /\ blocked_ips' = blocked_ips \cup {last'.ip}
           /\ CallOf("unblock_ip") =>
                 packet_stats'.ips_blocked = packet_stats.ips_blocked
         ]_vars

\* block, successful unblock, block again
C32_Witness ==
    /\ nops = 3 /\ last.op = "block_ip" /\ last.res = "rc0"
    /\ last.prev.op = "unblock_ip" /\ last.prev.res = "rc0" /\ last.prev.ip = last.ip
    /\ packet_stats.ips_blocked = 2
    /\ Cardinality(blocked_ips) = 1
    /\ iptables_rules[last.ip] = 1 /\ deny_issued[last.ip] = 2

\* C33: the blocked set never diverges from the installed rules.  In
\* sequential execution, with block_ip and unblock_ip the only issuers of
\* filter commands, commands that may fail, and a delete that succeeds only
\* when a rule exists, every source has exactly one installed DROP rule if
\* it is in blocked_ips and none otherwise.
C33_BlockedSetMatchesRules ==
    \A ip \in IPs : iptables_rules[ip] = (IF ip \in blocked_ips THEN 1 ELSE 0)

\* a failed block, a successful one, then a failed unblock: the source is
\* still blocked and has its one rule
C33_Witness ==
    /\ nops = 3 /\ last.op = "unblock_ip" /\ last.res = "rc1"
    /\ last.prev.op = "block_ip" /\ last.prev.res = "rc0" /\ last.prev.ip = last.ip
    /\ deny_issued[last.ip] = 2
    /\ last.ip \in blocked_ips /\ iptables_rules[last.ip] = 1
    /\ \E ip \in IPs : ip \notin blocked_ips /\ iptables_rules[ip] = 0

\* C34: the counters are ordered.  In every state reached by processing
\* messages, attacks_detected <= total_packets and, block_ip being called
\* only by on_message, ips_blocked <= attacks_detected; no message adds more
\* to the smaller counter than to the larger one.
C34_CounterOrdering ==
    /\ [](/\ packet_stats.attacks_detected <= packet_stats.total_packets
          /\ packet_stats.ips_blocked <= packet_stats.attacks_detected)
    /\ [][ CallOf("on_message") =>
             /\ packet_stats'.attacks_detected - packet_stats.attacks_detected <=
                   packet_stats'.total_packets - packet_stats.total_packets
             /\ packet_stats'.ips_blocked - packet_stats.ips_blocked <=
                   packet_stats'.attacks_detected - packet_stats.attacks_detected
         ]_vars

\* an attack, a benign message and another attack have been processed
C34_Witness ==
    /\ last.op = "on_message" /\ last.is_attack /\ last.prev.op = "on_message"
    /\ nops = 3
    /\ packet_stats.total_packets = 3
    /\ packet_stats.attacks_detected = 2
    /\ packet_stats.ips_blocked = 0

(***************************************************************************)
(* SpecBackstep: one flow, payloads with a right and a wrong checksum,     *)
(* under every clock step, the backward ones next to -0.001 s included.    *)
(***************************************************************************)
SpecBackstep ==
    Init
    /\ [][\/ nops < MaxOps /\
               Deliver({Msg("X", p, Source) : p \in {PayValid, PayBadSum}}
                           \cup {BadTopicMsg(PayBadSum, Source)},
                       ClockSteps, {ClsAttack90}, {TRUE})
          \/ Shutdown]_vars

C36_FlowIsolation ==
    /\ [](nops = 0 => DOMAIN last_packet_time = {})
    /\ [][ /\ Delivered =>
                 LET K == last'.topic
                 IN  /\ DOMAIN last_packet_time' = DOMAIN last_packet_time \cup {K}
                     /\ last_packet_time'[K] = last'.timestamp
                     /\ \A t \in DOMAIN last_packet_time \ {K} :
                           last_packet_time'[t] = last_packet_time[t]
                     /\ last'.time_delta =
                           (IF K \in DOMAIN last_packet_time
                            THEN last'.timestamp - last_packet_time[K] ELSE 0)
           /\ ~Delivered => last_packet_time' = last_packet_time
         ]_vars

\* X, then Y/y, then X again one second apart: X's delta is two seconds,
\* whatever arrived on Y/y in between
C36_Witness ==
    /\ last.op = "on_message" /\ last.topic = "X" /\ nops = 3
    /\ DOMAIN last_packet_time = {"X", "Y/y"}
    /\ last.time_delta = 2 * TICKS_PER_SEC
    /\ last_packet_time["Y/y"] = last_packet_time["X"] - TICKS_PER_SEC

\* C37: unblock_ip removes a source from blocked_ips only when the delete
\* command succeeds.  From every reachable state: a command that fails or
\* raises leaves blocked_ips, the counters and everything else unchanged, so
\* a blocked source stays blocked; a successful command for a blocked source
\* removes that source; a successful command for a source that is not in
\* blocked_ips (a rule installed by someone else) leaves the set and the
\* counters unchanged.  Every call made in a run agrees with this.
C37_UnblockOnlyOnSuccess ==
    /\ [](\A ip \in IPs :
            /\ \A res \in {"rc1", "exc"} : unblock_ip(Globals, ip, res) = Globals
            /\ ip \in blocked_ips =>
                  unblock_ip(Globals, ip, "rc0").blocked_ips = blocked_ips \ {ip}
            /\ ip \notin blocked_ips =>
                  LET g == [Globals EXCEPT !.iptables_rules[ip] = 1]
                      u == unblock_ip(g, ip, "rc0")
                  IN  /\ u.blocked_ips = blocked_ips
                      /\ u.packet_stats = packet_stats
                      /\ u.iptables_rules[ip] = 0)
    /\ [][ CallOf("unblock_ip") =>
             /\ UNCHANGED <<packet_stats, attack_log, last_packet_time, deny_issued>>
             /\ last'.res # "rc0" => UNCHANGED <<blocked_ips, iptables_rules>>
             /\ last'.res = "rc0" => blocked_ips' = blocked_ips \ {last'.ip}
         ]_vars

\* a source was blocked and the unblock that followed failed: it is still
\* blocked, with its rule
C37_Witness ==
    /\ nops = 2 /\ last.op = "unblock_ip" /\ last.res = "rc1"
    /\ last.prev.op = "block_ip" /\ last.prev.res = "rc0" /\ last.prev.ip = last.ip
    /\ blocked_ips = {last.ip} /\ iptables_rules[last.ip] = 1
    /\ packet_stats.ips_blocked = 1

(***************************************************************************)
(* The dashboard (src/dashboard/app.py).  Its decrypt_aes and              *)
(* verify_checksum are the gateway's, statement for statement, apart from  *)
(* what they print, and are the operators above.  `probe` holds the        *)
(* dashboard's two globals: sensor_data_history, a deque of at most        *)
(* HISTORY_MAXLEN entries, and latest_sensor_data.  A number read from     *)
(* JSON is held as its decimal text.                                       *)
(***************************************************************************)
HISTORY_MAXLEN == 100

\* json.loads(data_str) on the texts the model's messages carry: the empty
\* object, an object with the one member "temp" (a digit), and a string of
\* digits (a number); any other text here is no JSON (JSONDecodeError)
json_loads(text) ==
    LET temp_member == <<123, 34, 116, 101, 109, 112, 34, 58>>
    IN  IF text = <<123, 125>>
        THEN Ok([kind |-> "dict", temp |-> None])
        ELSE IF Len(text) = 10 /\ SubSeq(text, 1, 8) = temp_member
                /\ text[9] \in 48..57 /\ text[10] = 125
        THEN Ok([kind |-> "dict", temp |-> IF text[9] = 49 THEN "1" ELSE "other"])
        ELSE IF text # << >> /\ \A i \in 1..Len(text) : text[i] \in 49..57
        THEN Ok([kind |-> "int", temp |-> None])
        ELSE Raise

\* deque(maxlen=...).append(x): a full deque drops its oldest entry
deque_append(maxlen, d, x) ==
    IF Len(d) >= maxlen THEN Append(Tail(d), x) ELSE Append(d, x)

\* on_mqtt_message appending every parsed reading to the history
on_mqtt_message_appends_unverified(g, payload, timestamp) ==
    LET decrypted_data == decrypt_aes(payload)
        checked == verify_checksum(decrypted_data.str)
        data == json_loads(checked.data)
        obs == [NoCall EXCEPT !.op = "on_mqtt_message", !.timestamp = timestamp,
                              !.payload_length = PayloadLen(payload),
                              !.decrypted = decrypted_data]
    IN  IF ~Truthy(decrypted_data)
        THEN [g |-> g, obs |-> [obs EXCEPT !.stage = "decrypt"]]
        ELSE IF data.exc \/ data.val.kind # "dict"
        THEN [g |-> g, obs |-> [obs EXCEPT !.stage = "json",
                                           !.checksum_valid = checked.is_valid]]
        ELSE [g |-> [latest |->
                        [temperature |-> data.val.temp, humidity |-> None,
                         sensor_id |-> "Unknown", timestamp |-> timestamp,
                         status |-> IF checked.is_valid = "True"
                                    THEN "connected" ELSE "checksum_error",
                         checksum_valid |-> checked.is_valid],
                    history |->
                        deque_append(HISTORY_MAXLEN, g.history,
                            [timestamp |-> timestamp,
                             temperature |-> data.val.temp, humidity |-> None])],
              obs |-> [obs EXCEPT !.stage = "done",
                                  !.checksum_valid = checked.is_valid]]

\* on_mqtt_message(client, userdata, msg): g is the dashboard's globals; an
\* exception (no JSON, or JSON that is no object) is caught and leaves them
on_mqtt_message(g, payload, timestamp) ==
    LET decrypted_data == decrypt_aes(payload)
        checked == verify_checksum(decrypted_data.str)
        data == json_loads(checked.data)
        obs == [NoCall EXCEPT !.op = "on_mqtt_message", !.timestamp = timestamp,
                              !.payload_length = PayloadLen(payload),
                              !.decrypted = decrypted_data]
    IN  IF ~Truthy(decrypted_data)
        THEN [g |-> g, obs |-> [obs EXCEPT !.stage = "decrypt"]]
        ELSE IF data.exc \/ data.val.kind # "dict"
        THEN [g |-> g, obs |-> [obs EXCEPT !.stage = "json",
                                           !.checksum_valid = checked.is_valid]]
        ELSE [g |-> [latest |->
                        [temperature |-> data.val.temp, humidity |-> None,
                         sensor_id |-> "Unknown", timestamp |-> timestamp,
                         status |-> IF checked.is_valid = "True"
                                    THEN "connected" ELSE "checksum_error",
                         checksum_valid |-> checked.is_valid],
                    history |->
                        IF checked.is_valid = "True"
                        THEN deque_append(HISTORY_MAXLEN, g.history,
                                 [timestamp |-> timestamp,
                                  temperature |-> data.val.temp, humidity |-> None])
                        ELSE g.history],
              obs |-> [obs EXCEPT !.stage = "done",
                                  !.checksum_valid = checked.is_valid]]

\* the globals as first assigned (lines 58-67)
InitDashboard ==
    /\ ml_model = None /\ scaler = None /\ InitGlobals
    /\ probe = [history |-> << >>,
                latest |-> [temperature |-> None, humidity |-> None,
                            sensor_id |-> None, timestamp |-> None,
                            status |-> "waiting", checksum_valid |-> None]]

\* the broker delivers a message to the dashboard, a second after the last
OnMqttMessage(payload) ==
    /\ LET r == on_mqtt_message(probe, payload, now + TICKS_PER_SEC)
       IN  /\ probe' = r.g
           /\ last' = [r.obs EXCEPT !.prev = Prev]
    /\ now' = now + TICKS_PER_SEC
    /\ nops' = nops + 1
    /\ UNCHANGED <<ml_model, scaler, blocked_ips, last_packet_time, packet_stats,
                   attack_log, iptables_rules, deny_issued, loop, flushed>>

\* the messages of SpecDashboard: readings with a right checksum, a reading
\* and a text that is no JSON with a wrong one, a reading without checksum, a
\* number and a text that is no JSON with a right one, and bytes that cannot
\* be decrypted
DashPayloads ==
    LET reading(d) == <<123, 34, 116, 101, 109, 112, 34, 58, d, 125>>
    IN  [valid |-> SenderEncrypt(WithChecksum(reading(49)), "pkcs7"),
         valid2 |-> SenderEncrypt(WithChecksum(reading(50)), "zero"),
         badsum |-> SenderEncrypt(reading(49) \o <<CH_PIPE>> \o calculate_crc32(<<98>>),
                                  "pkcs7"),
         badsum_nojson |-> PayBadSum,
         nosum |-> SenderEncrypt(<<123, 125>>, "pkcs7"),
         number |-> SenderEncrypt(WithChecksum(<<49>>), "pkcs7"),
         nojson |-> PayValid,
         plain |-> PayPlain]

(***************************************************************************)
(* SpecDashboard: any of these messages at the start and once the history  *)
(* is full, and verified readings in between to fill it.                   *)
(***************************************************************************)
MaxDashVariety == 2

SpecDashboard ==
    InitDashboard
    /\ [][\E k \in DOMAIN DashPayloads :
             /\ nops < HISTORY_MAXLEN + MaxDashVariety + 1
             /\ \/ k = "valid"
                \/ nops < MaxDashVariety
                \/ Len(probe.history) = HISTORY_MAXLEN
             /\ OnMqttMessage(DashPayloads[k])]_vars

\* the history entry on_mqtt_message appends for a call
HistoryEntry(call, latest) ==
    [timestamp |-> call.timestamp, temperature |-> latest.temperature,
     humidity |-> latest.humidity]

\* the checksum of the call's message was wrong or missing
Unverified(call) == Truthy(call.decrypted) /\ call.checksum_valid # "True"

\* C38 as stated: the dashboard history holds only verified readings and is
\* bounded.  sensor_data_history never has more than 100 entries, the oldest
\* being dropped first; an entry is appended only for a message whose
\* checksum verified; and every message with a wrong or missing checksum
\* updates latest_sensor_data with a status other than connected and is not
\* appended.
C38_DashboardHistory ==
    /\ [](Len(probe.history) <= HISTORY_MAXLEN)
    /\ [][ CallOf("on_mqtt_message") =>
             /\ probe'.history # probe.history =>
                   /\ last'.checksum_valid = "True"
                   /\ probe'.history =
                         (IF Len(probe.history) = HISTORY_MAXLEN
                          THEN Tail(probe.history) ELSE probe.history)
                         \o <<HistoryEntry(last', probe'.latest)>>
             /\ Unverified(last') =>
                   /\ probe'.history = probe.history
                   /\ probe'.latest.status = "checksum_error"
                   /\ probe'.latest.checksum_valid = last'.checksum_valid
                   /\ probe'.latest.timestamp = last'.timestamp
         ]_vars

\* C38, amended: the same for the history; a message with a wrong or missing
\* checksum updates latest_sensor_data with status checksum_error when its
\* data parses as a JSON object, and changes nothing at all when it does
\* not; a message whose checksum verified is appended only when its data
\* parses as a JSON object.
C38_DashboardHistoryParsed ==
    /\ [](Len(probe.history) <= HISTORY_MAXLEN)
    /\ [][ CallOf("on_mqtt_message") =>
             /\ probe'.history # probe.history =>
                   /\ last'.checksum_valid = "True" /\ last'.stage = "done"
                   /\ probe'.history =
                         (IF Len(probe.history) = HISTORY_MAXLEN
                          THEN Tail(probe.history) ELSE probe.history)
                         \o <<HistoryEntry(last', probe'.latest)>>
             /\ (last'.stage = "done" /\ last'.checksum_valid = "True") =>
                   /\ probe'.history # probe.history
                   /\ probe'.latest.status = "connected"
             /\ (Unverified(last') /\ last'.stage = "done") =>
                   /\ probe'.history = probe.history
                   /\ probe'.latest.status = "checksum_error"
                   /\ probe'.latest.checksum_valid = last'.checksum_valid
                   /\ probe'.latest.timestamp = last'.timestamp
             /\ last'.stage # "done" => probe' = probe
         ]_vars

\* 101 verified readings filled the history and pushed the oldest out; the
\* reading after them had a wrong checksum: it is shown as latest with
\* status checksum_error and the history is as it was
C38_Witness ==
    /\ last.op = "on_mqtt_message" /\ last.stage = "done"
    /\ last.checksum_valid = "False"
    /\ nops = HISTORY_MAXLEN + 2
    /\ Len(probe.history) = HISTORY_MAXLEN
    /\ probe.history[1].timestamp = 2 * TICKS_PER_SEC
    /\ probe.history[HISTORY_MAXLEN].timestamp = (HISTORY_MAXLEN + 1) * TICKS_PER_SEC
    /\ probe.latest.status = "checksum_error"
    /\ probe.latest.timestamp = (HISTORY_MAXLEN + 2) * TICKS_PER_SEC

====
